---- MODULE Spec2Model ----
(***************************************************************************)
(* Model of monitor-graph's log normalisation core: the label annotation   *)
(* and multi-file merge of src/App.tsx and the dataset builder and         *)
(* timestamp composer of src/lib/dataParser.ts.                            *)
(*                                                                         *)
(* A JavaScript string is a sequence of one-character strings, so that     *)
(* concatenation, trimming and splitting are computed, not assumed.        *)
(***************************************************************************)
EXTENDS Integers, Sequences, FiniteSets, TLC

VARIABLES
  annIn,        \* annotateDatasetLabels: the datasets passed in
  annOut,       \* annotateDatasetLabels: the datasets returned (<<>> before the call)
  annDone,      \* annotateDatasetLabels: has returned
  files,        \* handleFile: the datasets parsed from the selected files
  loadedFiles,  \* handleFile: the labelled datasets (result of annotateDatasetLabels)
  parsedData,   \* handleFile: the merged dataset handed to setParsedData
  loadDone,     \* handleFile: the load has finished
  rowCell0,  \* composeTimestamp: the two cells of a row
  rowCell1,
  composed,     \* composeTimestamp(rowCell0, rowCell1)
  composedSwapped, \* composeTimestamp(rowCell1, rowCell0)
  composePc,    \* "idle", "row", "composed", "both"
  grid,         \* buildParsedData: the rows of a file
  built,        \* buildParsedData(rows) of dataParser.ts
  builtApp,     \* buildParsedData(rows) of App.tsx
  inbox,        \* parserWorker: the request messages, in the order sent
  handlers,     \* parserWorker: the state of the handler of each message
  parseLog,     \* the calls of parseFileInput: handler, file, reader, builder
  outbox,       \* parserWorker: the responses posted, in order
  csvBuffer,    \* decodeCsvBuffer: what each decoder makes of the buffer
  csvText,      \* decodeCsvBuffer(csvBuffer) (None before the call)
  cellText,     \* parseTimeCell, parseDateCell: the text s of a cell
  cellAs,       \* "time" or "date": the interpreter the cell is given to
  parsedPlain,  \* the interpretation of s
  parsedQuoted, \* the interpretation of "'" + s
  cellDone,     \* both interpretations have been made
  readCell,     \* parseTimeCell, parseDateCell: the cell given to the interpreter
  readAs,       \* "time" or "date": the interpreter
  readResult,   \* what the interpreter returns
  readFast,     \* what its structural forms alone make of a string cell
  readDone,     \* the interpreter has returned
  page,         \* App: the state the page displays (the useState values)
  loads         \* App: the invocations of handleFile, in the order invoked

vars == <<annIn, annOut, annDone, files, loadedFiles, parsedData, loadDone,
          rowCell0, rowCell1, composed, composedSwapped, composePc,
          grid, built, builtApp, inbox, handlers, parseLog, outbox,
          csvBuffer, csvText, cellText, cellAs, parsedPlain, parsedQuoted, cellDone,
          readCell, readAs, readResult, readFast, readDone, page, loads>>

annVars == <<annIn, annOut, annDone>>
mergeVars == <<files, loadedFiles, parsedData, loadDone>>
composeVars == <<rowCell0, rowCell1, composed, composedSwapped, composePc>>
buildVars == <<grid, built, builtApp>>
workerVars == <<inbox, handlers, parseLog, outbox>>
decodeVars == <<csvBuffer, csvText>>
cellVars == <<cellText, cellAs, parsedPlain, parsedQuoted, cellDone>>
readVars == <<readCell, readAs, readResult, readFast, readDone>>
loadVars == <<page, loads>>

\* A series value is number | null: null is the empty tuple and the number x is
\* the one-element tuple <<x>>.
Null == <<>>
Num(x) == <<x>>

(***************************************************************************)
(* Strings                                                                 *)
(***************************************************************************)

Range(f) == {f[x] : x \in DOMAIN f}

DigitChars == <<"0", "1", "2", "3", "4", "5", "6", "7", "8", "9">>

\* String(n) for a non-negative integer n, as the template literals format it.
RECURSIVE NumToStr(_)
NumToStr(n) ==
  IF n < 10 THEN <<DigitChars[n + 1]>>
  ELSE NumToStr(n \div 10) \o <<DigitChars[(n % 10) + 1]>>

(***************************************************************************)
(* annotateDatasetLabels (App.tsx)                                          *)
(***************************************************************************)

\* The literal prefix of the generated label `ログ${i + 1}` (transliterated).
LogPrefix == <<"l", "o", "g">>

\* d.label || d.fileName || `ログ${i + 1}`; i is the 1-based position, the
\* code's i + 1.
baseLabel(d, i) ==
  IF d.label # <<>> THEN d.label
  ELSE IF d.fileName # <<>> THEN d.fileName
  ELSE LogPrefix \o NumToStr(i)

\* counts.get(base) ?? 0
countsGet(counts, base) == IF base \in DOMAIN counts THEN counts[base] ELSE 0

\* counts.set(base, n): a mutant that forgets to store the new count.
countsSetForgets(counts, base, n) == counts

\* counts.set(base, n)
countsSet(counts, base, n) ==
  [k \in (DOMAIN counts) \cup {base} |-> IF k = base THEN n ELSE counts[k]]

\* n > 1 ? `${base} (${n})` : base
annotatedLabel(base, n) ==
  IF n > 1 THEN base \o <<" ", "(">> \o NumToStr(n) \o <<")">> ELSE base

\* datasets.map((d, i) => ...) with the running counts map.
RECURSIVE annotateFrom(_, _, _, _)
annotateFrom(datasets, i, counts, out) ==
  IF i > Len(datasets) THEN out
  ELSE LET d == datasets[i]
           base == baseLabel(d, i)
           n == countsGet(counts, base) + 1
       IN annotateFrom(datasets, i + 1, countsSet(counts, base, n),
                       Append(out, [d EXCEPT !.label = annotatedLabel(base, n)]))

annotateDatasetLabels(datasets) == annotateFrom(datasets, 1, <<>>, <<>>)

(***************************************************************************)
(* mergeParsedDatasets (App.tsx)                                            *)
(***************************************************************************)

\* Map.set(key, value) on a map held as a function.
mapSet(m, k, v) == [x \in (DOMAIN m) \cup {k} |-> IF x = k THEN v ELSE m[x]]

\* tsMap: datasets.forEach(({data}) => data.timestamps.forEach(...)); only its
\* key set (the distinct getTime() values) is used to build the timeline.
tsMapKeys(datasets) ==
  UNION {Range(datasets[f].data.timestamps) : f \in 1..Len(datasets)}

\* .sort((a, b) => a - b) on the array of distinct keys.
RECURSIVE sortAscending(_)
sortAscending(S) ==
  IF S = {} THEN <<>>
  ELSE LET least == CHOOSE x \in S : \A y \in S : x <= y
       IN <<least>> \o sortAscending(S \ {least})

\* A mutant of unifiedTimes: every timestamp of every file in file order, neither
\* deduplicated nor sorted.
RECURSIVE unifiedTimesConcatenated(_)
unifiedTimesConcatenated(datasets) ==
  IF datasets = <<>> THEN <<>>
  ELSE Head(datasets).data.timestamps \o unifiedTimesConcatenated(Tail(datasets))

\* times = Array.from(tsMap.keys()).sort((a, b) => a - b)
unifiedTimes(datasets) == sortAscending(tsMapKeys(datasets))

\* unionIndex: times.forEach((t, i) => unionIndex.set(t, i)); positions are 1-based.
RECURSIVE unionIndexFrom(_, _, _)
unionIndexFrom(times, i, unionIndex) ==
  IF i > Len(times) THEN unionIndex
  ELSE unionIndexFrom(times, i + 1, mapSet(unionIndex, times[i], i))

\* A mutant of rowIndexFrom: the first row with a getTime() value is kept.
RECURSIVE rowIndexKeepingFirst(_, _, _)
rowIndexKeepingFirst(timestamps, i, idx) ==
  IF i > Len(timestamps) THEN idx
  ELSE rowIndexKeepingFirst(timestamps, i + 1,
                            IF timestamps[i] \in DOMAIN idx THEN idx
                            ELSE mapSet(idx, timestamps[i], i))

\* idx: data.timestamps.forEach((t, i) => idx.set(t.getTime(), i)); a later row
\* with the same getTime() replaces the earlier one.
RECURSIVE rowIndexFrom(_, _, _)
rowIndexFrom(timestamps, i, idx) ==
  IF i > Len(timestamps) THEN idx
  ELSE rowIndexFrom(timestamps, i + 1, mapSet(idx, timestamps[i], i))

\* vals[src] ?? null
valueAt(vals, src) == IF src \in DOMAIN vals THEN vals[src] ELSE Null

\* A mutant of alignedSeries: the file's values copied in row order from the
\* first position on, not placed by timestamp.
alignedSeriesByRow(vals, idx, unionIndex, n) ==
  [ui \in 1..n |-> valueAt(vals, ui)]

\* arr = new Array(timestamps.length).fill(null);
\* idx.forEach((src, tk) => { ui = unionIndex.get(tk); if (ui !== undefined) arr[ui] = vals[src] ?? null })
alignedSeries(vals, idx, unionIndex, n) ==
  [ui \in 1..n |->
     IF \E tk \in DOMAIN idx : tk \in DOMAIN unionIndex /\ unionIndex[tk] = ui
     THEN LET tk == CHOOSE t \in DOMAIN idx : t \in DOMAIN unionIndex /\ unionIndex[t] = ui
          IN valueAt(vals, idx[tk])
     ELSE Null]

\* key = `[${label}] ${name}`
mergeKey(label, name) == <<"[">> \o label \o <<"]", " ">> \o name

\* Object.entries(data.series).forEach(([name, vals]) => { ...; merged[key] = arr })
\* for one dataset: its keys differ among themselves (same label, distinct names),
\* so they are written in one step; a key already in merged is overwritten.
mergeDataset(merged, dataset, unionIndex, n) ==
  LET idx == rowIndexFrom(dataset.data.timestamps, 1, <<>>)
      names == DOMAIN dataset.data.series
      keys == {mergeKey(dataset.label, nm) : nm \in names}
      nameOf(k) == CHOOSE nm \in names : mergeKey(dataset.label, nm) = k
  IN [k \in (DOMAIN merged) \cup keys |->
        IF k \in keys
        THEN alignedSeries(dataset.data.series[nameOf(k)], idx, unionIndex, n)
        ELSE merged[k]]

\* datasets.forEach(({data, label}) => ...) in array order.
RECURSIVE mergeFrom(_, _, _, _, _)
mergeFrom(datasets, f, merged, unionIndex, n) ==
  IF f > Len(datasets) THEN merged
  ELSE mergeFrom(datasets, f + 1, mergeDataset(merged, datasets[f], unionIndex, n),
                 unionIndex, n)

\* The body of mergeParsedDatasets for two or more datasets.
mergeSeveral(datasets) ==
  LET times == unifiedTimes(datasets)
      unionIndex == unionIndexFrom(times, 1, <<>>)
  IN [timestamps |-> times,
      series |-> mergeFrom(datasets, 1, <<>>, unionIndex, Len(times))]

\* A mutant of mergeParsedDatasets: no short-circuit for a single dataset.
mergeWithoutShortCircuit(datasets) == mergeSeveral(datasets)

\* mergeParsedDatasets; the empty list (which throws) is excluded by handleFile's
\* early return on an empty selection.
mergeParsedDatasets(datasets) ==
  IF Len(datasets) = 1 THEN datasets[1].data ELSE mergeSeveral(datasets)

(***************************************************************************)
(* JavaScript values used by the parser (dataParser.ts)                    *)
(*                                                                         *)
(* An optional value (T | null) is the empty tuple or a one-element tuple. *)
(* A number read from text is an exact decimal [n, e], the value n / 10^e; *)
(* NaN has e = -1.  Binary floating-point rounding is not modelled.        *)
(* An instant (Date, dayjs) is [day, ms]: days since 1970-01-01 and the    *)
(* millisecond of that day, in the local time zone, taken without          *)
(* daylight-saving shifts.                                                 *)
(***************************************************************************)

None == <<>>
Some(x) == <<x>>

\* a ?? b, and `if (a) return a` before b, for results that are None or Some.
OrElse(a, b) == IF a # None THEN a ELSE b

\* Math.min
Min(a, b) == IF a < b THEN a ELSE b

RECURSIVE Pow10(_)
Pow10(k) == IF k <= 0 THEN 1 ELSE 10 * Pow10(k - 1)

NaN == [n |-> 0, e |-> -1]
Dec(n, e) == [n |-> n, e |-> e]
DecInt(k) == [n |-> k, e |-> 0]

\* Number.isFinite(v) for a number read from text.
isFinite(v) == v.e >= 0

\* v < k and v > k for a finite decimal v and an integer k.
DecLess(v, k) == v.n < k * Pow10(v.e)
DecGreater(v, k) == v.n > k * Pow10(v.e)

\* ToIntegerOrInfinity(v): truncation toward zero, as the Date constructor and
\* its setters apply it.
Trunc(v) ==
  IF v.n >= 0 THEN v.n \div Pow10(v.e) ELSE 0 - ((0 - v.n) \div Pow10(v.e))

IsDigit(c) == c \in Range(DigitChars)
DigitValue(c) == (CHOOSE i \in 1..10 : DigitChars[i] = c) - 1
AllDigits(s) == \A i \in 1..Len(s) : IsDigit(s[i])

\* The whitespace String.prototype.trim removes (the space and the tab stand for
\* the whole class).
IsSpace(c) == c \in {" ", "\t"}

RECURSIVE TrimStart(_)
TrimStart(s) == IF s # <<>> /\ IsSpace(Head(s)) THEN TrimStart(Tail(s)) ELSE s

RECURSIVE TrimEnd(_)
TrimEnd(s) ==
  IF s # <<>> /\ IsSpace(s[Len(s)]) THEN TrimEnd(SubSeq(s, 1, Len(s) - 1)) ELSE s

\* s.trim()
Trim(s) == TrimEnd(TrimStart(s))

\* s.includes(c) for a one-character c.
Includes(s, c) == \E i \in 1..Len(s) : s[i] = c

\* s.split(c) for a one-character c.
RECURSIVE Split(_, _)
Split(s, c) ==
  IF ~Includes(s, c) THEN <<s>>
  ELSE LET i == CHOOSE k \in 1..Len(s) : s[k] = c /\ \A j \in 1..(k - 1) : s[j] # c
       IN <<SubSeq(s, 1, i - 1)>> \o Split(SubSeq(s, i + 1, Len(s)), c)

\* s.slice(a, b) with 0-based a and exclusive b.
Slice(s, a, b) == SubSeq(s, a + 1, IF b < Len(s) THEN b ELSE Len(s))

\* The value of a digit string (0 for the empty string).
RECURSIVE DigitsValue(_)
DigitsValue(s) ==
  IF s = <<>> THEN 0
  ELSE 10 * DigitsValue(SubSeq(s, 1, Len(s) - 1)) + DigitValue(s[Len(s)])

\* Number(s) for a string: "" and blank strings are 0; an optional sign, digits
\* and at most one decimal point, with at least one digit, is that decimal;
\* everything else over the modelled alphabet is NaN (exponent, hex and
\* "Infinity" forms are outside it).
StrToNumber(s) ==
  LET digits(negative, whole, frac) ==
        IF AllDigits(whole) /\ AllDigits(frac) /\ Len(whole) + Len(frac) >= 1
        THEN Dec((IF negative THEN -1 ELSE 1)
                   * (DigitsValue(whole) * Pow10(Len(frac)) + DigitsValue(frac)),
                 Len(frac))
        ELSE NaN
      decimal(negative, parts) ==
        IF Len(parts) > 2 THEN NaN
        ELSE digits(negative, parts[1], IF Len(parts) = 2 THEN parts[2] ELSE <<>>)
      number(t) ==
        IF t = <<>> THEN DecInt(0)
        ELSE decimal(Head(t) = "-", Split(IF Head(t) \in {"-", "+"} THEN Tail(t) ELSE t, "."))
  IN number(Trim(s))

\* Days from 1970-01-01 to the proleptic Gregorian day d of month m (1..12) of
\* year y; a day past the month's end runs on into the next months, as in
\* new Date(y, m - 1, d).
DaysFromCivil(y, m, d) ==
  LET yy == IF m <= 2 THEN y - 1 ELSE y
      era == yy \div 400
      yoe == yy - era * 400
      mp == (m + 9) % 12
      doy == (153 * mp + 2) \div 5 + d - 1
      doe == yoe * 365 + yoe \div 4 - yoe \div 100 + doy
  IN era * 146097 + doe - 719468

\* new Date(year, monthIndex, day, h, mi, s, ms) on integers: a year 0..99 is
\* 1900 + year; month, day and time overflow into the next units.  The years
\* the Date type cannot hold give the invalid date (None).
MaxDateYear == 275000
MsPerDay == 86400000

JsDate(year, monthIndex, day, h, mi, s, ms) ==
  LET y == IF year >= 0 /\ year <= 99 THEN 1900 + year ELSE year
      ym == y + (monthIndex \div 12)
      mn == (monthIndex % 12) + 1
      t == h * 3600000 + mi * 60000 + s * 1000 + ms
  IN IF y > MaxDateYear \/ y < 0 - MaxDateYear THEN None
     ELSE Some([day |-> DaysFromCivil(ym, mn, 1) + (day - 1) + (t \div MsPerDay),
                ms |-> t % MsPerDay])

(***************************************************************************)
(* Cells (CellValue = string | number | Date | null | undefined)           *)
(*                                                                         *)
(*   <<"absent">>                    null, undefined or a missing index    *)
(*   <<"text", s>>                   the string s                          *)
(*   <<"number", whole, secs, sub>>  the finite number                     *)
(*                                   whole + (secs + sub / 10^5) / 86400   *)
(*   <<"date", day, ms>>             a valid Date                          *)
(***************************************************************************)

AbsentCell == <<"absent">>
TextCell(s) == <<"text", s>>
NumberCell(whole, secs, sub) == <<"number", whole, secs, sub>>
DateCell(day, ms) == <<"date", day, ms>>

kindOf(cell) == cell[1]

\* row[i]: undefined beyond the row's end.
cellAt(row, i) == IF i \in 1..Len(row) THEN row[i] ELSE AbsentCell

\* String(number): exact for an integer; for a fraction the digits after the
\* point are stood in for by the digits of (secs, sub), which like the true
\* digits are non-empty, free of whitespace and different for different numbers.
NumberToString(cell) ==
  (IF cell[2] < 0 THEN <<"-">> \o NumToStr(0 - cell[2]) ELSE NumToStr(cell[2]))
    \o (IF cell[3] = 0 /\ cell[4] = 0 THEN <<>>
        ELSE <<".">> \o NumToStr(cell[3]) \o NumToStr(cell[4]))

\* Date.prototype.toString(): stood in for by "D<day>T<ms>", non-empty and
\* different for different dates.
DateToString(cell) ==
  <<"D">> \o (IF cell[2] < 0 THEN <<"-">> \o NumToStr(0 - cell[2]) ELSE NumToStr(cell[2]))
    \o <<"T">> \o NumToStr(cell[3])

\* (cell ?? '').toString()
cellToString(cell) ==
  CASE kindOf(cell) = "absent" -> <<>>
    [] kindOf(cell) = "text" -> cell[2]
    [] kindOf(cell) = "number" -> NumberToString(cell)
    [] kindOf(cell) = "date" -> DateToString(cell)

(***************************************************************************)
(* dayjs(string): REGEX_PARSE and the Date constructor                     *)
(***************************************************************************)

DigitClass == Range(DigitChars)

\* /^(\d{4})[-/]?(\d{1,2})?[-/]?(\d{0,2})[Tt\s]*(\d{1,2})?:?(\d{1,2})?:?(\d{1,2})?[.:]?(\d+)?$/
\* as a sequence of greedy character classes [cls]{min,max}; max = -1 is unbounded.
RegexParse ==
  << [cls |-> DigitClass, min |-> 4, max |-> 4],
     [cls |-> {"-", "/"}, min |-> 0, max |-> 1],
     [cls |-> DigitClass, min |-> 0, max |-> 2],
     [cls |-> {"-", "/"}, min |-> 0, max |-> 1],
     [cls |-> DigitClass, min |-> 0, max |-> 2],
     [cls |-> {"T", "t", " ", "\t"}, min |-> 0, max |-> -1],
     [cls |-> DigitClass, min |-> 0, max |-> 2],
     [cls |-> {":"}, min |-> 0, max |-> 1],
     [cls |-> DigitClass, min |-> 0, max |-> 2],
     [cls |-> {":"}, min |-> 0, max |-> 1],
     [cls |-> DigitClass, min |-> 0, max |-> 2],
     [cls |-> {".", ":"}, min |-> 0, max |-> 1],
     [cls |-> DigitClass, min |-> 0, max |-> -1] >>

\* The length of the longest stretch of s from pos within cls, at most max
\* characters when max >= 0.
RECURSIVE runLength(_, _, _, _)
runLength(cls, s, pos, max) ==
  IF max = 0 \/ pos > Len(s) \/ s[pos] \notin cls THEN 0
  ELSE 1 + runLength(cls, s, pos + 1, max - 1)

\* The ways elements k.. of pat can go on from the partial matches of the
\* elements before them to the end of s: partial holds, for each way the
\* elements before k can match, the lengths they take and the position reached.
RECURSIVE MatchesFrom(_, _, _, _)
MatchesFrom(pat, k, s, partial) ==
  IF partial = {} THEN {}
  ELSE IF k > Len(pat) THEN {p[1] : p \in {q \in partial : q[2] = Len(s) + 1}}
  ELSE MatchesFrom(pat, k + 1, s,
         UNION {{<<Append(p[1], take), p[2] + take>> :
                   take \in pat[k].min..runLength(pat[k].cls, s, p[2], pat[k].max)} :
                p \in partial})

\* lens comes before other in the order a backtracking matcher of greedy
\* elements tries them: at the first element where they differ lens takes more.
TriedBefore(lens, other) ==
  \E i \in 1..Len(lens) :
    /\ \A j \in 1..(i - 1) : lens[j] = other[j]
    /\ lens[i] > other[i]

\* The match of pat against the whole of s: the lengths the elements take in the
\* first match found, or None.
Match(pat, s) ==
  LET first(matches) ==
        IF matches = {} THEN None
        ELSE Some(CHOOSE m \in matches : \A q \in matches : q = m \/ TriedBefore(m, q))
  IN first(MatchesFrom(pat, 1, s, {<<<<>>, 1>>}))

\* The substring element k of a match took.
RECURSIVE groupStart(_, _)
groupStart(lens, k) == IF k = 1 THEN 1 ELSE groupStart(lens, k - 1) + lens[k - 1]
groupText(s, lens, k) == SubSeq(s, groupStart(lens, k), groupStart(lens, k) + lens[k] - 1)

\* dayjs(s) without a format, for a string that does not end in Z: on a match
\* new Date(d[1], d[2] - 1 || 0, d[3] || 1, d[4] || 0, d[5] || 0, d[6] || 0,
\* (d[7] || '0').substring(0, 3)); otherwise new Date(s), which for the strings
\* of this model (digits, separators and words no date format knows) is the
\* invalid date.  The result is None when !isValid().
dayjsParse(s) ==
  LET date(d) ==
        JsDate(DigitsValue(d[1]), IF d[3] = <<>> THEN 0 ELSE DigitsValue(d[3]) - 1,
               IF d[5] = <<>> THEN 1 ELSE DigitsValue(d[5]),
               DigitsValue(d[7]), DigitsValue(d[9]), DigitsValue(d[11]),
               DigitsValue(Slice(d[13], 0, 3)))
      matched(m) ==
        IF m = None THEN None
        ELSE date([k \in 1..Len(m[1]) |-> groupText(s, m[1], k)])
  IN matched(Match(RegexParse, s))

\* The month length the strict formats need.
DaysInMonth(y, m) ==
  (IF m = 12 THEN DaysFromCivil(y + 1, 1, 1) ELSE DaysFromCivil(y, m + 1, 1))
    - DaysFromCivil(y, m, 1)

\* dayjs(s, format, true) for 'YYYY/MM/DD', 'YYYY-MM-DD', 'YYYY.MM.DD' (delim is
\* the separator) and 'YYYYMMDD' (delim = ""): strict parsing accepts s only if
\* formatting the parsed date gives s back, that is four year digits of a year
\* from 100 on, a month 01..12 and a day that exists in it.
dayjsStrict(s, delim) ==
  LET shaped == IF delim = ""
                THEN Len(s) = 8 /\ AllDigits(s)
                ELSE /\ Len(s) = 10 /\ s[5] = delim /\ s[8] = delim
                     /\ AllDigits(SubSeq(s, 1, 4)) /\ AllDigits(SubSeq(s, 6, 7))
                     /\ AllDigits(SubSeq(s, 9, 10))
      date(y, mo, d) ==
        IF y >= 100 /\ mo >= 1 /\ mo <= 12 /\ d >= 1 /\ d <= DaysInMonth(y, mo)
        THEN JsDate(y, mo - 1, d, 0, 0, 0, 0)
        ELSE None
      fields(off) ==
        date(DigitsValue(SubSeq(s, 1, 4)), DigitsValue(SubSeq(s, 5 + off, 6 + off)),
             DigitsValue(SubSeq(s, 7 + 2 * off, 8 + 2 * off)))
  IN IF shaped THEN fields(IF delim = "" THEN 0 ELSE 1) ELSE None

(***************************************************************************)
(* Cell interpreters and timestamp composer (dataParser.ts)                *)
(***************************************************************************)

\* XLSX.SSF.parse_date_code(v): null for v < 0 or v > 2958465; otherwise the
\* serial's day (D), second of the day (T) and sub-second part (u, in 10^-5 s),
\* a u above 0.9999 being carried into the next second (and day).
MaxSerial == 2958465

parse_date_code(cell) ==
  LET whole == cell[2]
      secs == cell[3]
      sub == cell[4]
      carry == sub > 99990
      time == IF carry THEN secs + 1 ELSE secs
      nextDay == carry /\ time = 86400
  IN IF whole < 0 \/ whole > MaxSerial
        \/ (whole = MaxSerial /\ (secs > 0 \/ sub > 0))
     THEN None
     ELSE Some([D |-> IF nextDay THEN whole + 1 ELSE whole,
                T |-> IF nextDay THEN 0 ELSE time,
                u |-> IF carry THEN 0 ELSE sub])

\* The day [y, m, d] of parse_date_code as new Date(y, m - 1, d) reads it: serial
\* 60 is 1900-02-29 (which the Date constructor rolls to 1 March), serial 0 is
\* "1900-01-00" (31 December 1899), and a serial above 60 is one day less.
serialDay(date) ==
  IF date = 60 THEN DaysFromCivil(1900, 2, 29)
  ELSE IF date = 0 THEN DaysFromCivil(1900, 1, 0)
  ELSE DaysFromCivil(1900, 1, 1) + (IF date > 60 THEN date - 1 ELSE date) - 1

\* parseExcelDate
parseExcelDate(cell) ==
  LET date(parsed) ==
        IF parsed = None THEN None ELSE Some([day |-> serialDay(parsed[1].D), ms |-> 0])
  IN date(parse_date_code(cell))

\* createDayjsFromParts
createDayjsFromParts(year, month, day) ==
  IF ~(isFinite(year) /\ isFinite(month) /\ isFinite(day)) THEN None
  ELSE IF DecLess(month, 1) \/ DecGreater(month, 12)
          \/ DecLess(day, 1) \/ DecGreater(day, 31) THEN None
  ELSE JsDate(Trunc(year), Trunc(month) - 1, Trunc(day), 0, 0, 0, 0)

\* parseDateStringFast
parseDateStringFast(value) ==
  LET split(segments) ==
        IF Len(segments) = 3
        THEN createDayjsFromParts(StrToNumber(segments[1]), StrToNumber(segments[2]),
                                  StrToNumber(segments[3]))
        ELSE None
      fast(trimmed, delimiter) ==
        IF trimmed = <<>> THEN None
        ELSE IF delimiter # "" THEN split(Split(trimmed, delimiter))
        ELSE IF Len(trimmed) = 8 /\ AllDigits(trimmed)
        THEN createDayjsFromParts(StrToNumber(Slice(trimmed, 0, 4)),
                                  StrToNumber(Slice(trimmed, 4, 6)),
                                  StrToNumber(Slice(trimmed, 6, 8)))
        ELSE None
      delimiterOf(trimmed) ==
        fast(trimmed, IF Includes(trimmed, "/") THEN "/"
                      ELSE IF Includes(trimmed, "-") THEN "-"
                      ELSE IF Includes(trimmed, ".") THEN "." ELSE "")
  IN delimiterOf(Trim(value))

\* DATE_FORMATS, by separator.
DATE_FORMATS == <<"/", "-", ".", "">>

\* for (const format of DATE_FORMATS) { candidate = dayjs(trimmed, format, true); ... }
RECURSIVE strictDateFrom(_, _)
strictDateFrom(trimmed, k) ==
  IF k > Len(DATE_FORMATS) THEN None
  ELSE OrElse(dayjsStrict(trimmed, DATE_FORMATS[k]), strictDateFrom(trimmed, k + 1))

\* parseDateCell
parseDateCell(cell) ==
  LET text(trimmed) ==
        IF trimmed = <<>> THEN None
        ELSE OrElse(parseDateStringFast(trimmed),
                    OrElse(strictDateFrom(trimmed, 1), dayjsParse(trimmed)))
  IN IF kindOf(cell) = "date" THEN Some([day |-> cell[2], ms |-> cell[3]])
     ELSE IF kindOf(cell) = "number" THEN parseExcelDate(cell)
     ELSE IF kindOf(cell) = "text" THEN text(Trim(cell[2]))
     ELSE None

\* The quote characters normalizeExcelString strips (of its class ['＇‘’"＂] the
\* ASCII apostrophe and double quote).
QuoteChars == {"'", "\""}

RECURSIVE stripLeadingQuotes(_)
stripLeadingQuotes(s) ==
  IF s # <<>> /\ Head(s) \in QuoteChars THEN stripLeadingQuotes(Tail(s)) ELSE s

\* normalizeExcelString: input.replace(/^['＇‘’"＂]+/, '').trim()
normalizeExcelString(input) == Trim(stripLeadingQuotes(input))

\* TimeParts; the fields are decimals when read from text.
TimeParts(hour, minute, second, millisecond) ==
  [hour |-> hour, minute |-> minute, second |-> second, millisecond |-> millisecond]

defaultTime == TimeParts(DecInt(0), DecInt(0), DecInt(0), DecInt(0))

\* createTimeParts
createTimeParts(hour, minute, second, millisecond) ==
  IF ~(isFinite(hour) /\ isFinite(minute) /\ isFinite(second) /\ isFinite(millisecond))
  THEN None
  ELSE IF DecLess(hour, 0) \/ DecGreater(hour, 99) THEN None
  ELSE IF DecLess(minute, 0) \/ DecGreater(minute, 59) THEN None
  ELSE IF DecLess(second, 0) \/ DecGreater(second, 59) THEN None
  ELSE IF DecLess(millisecond, 0) \/ DecGreater(millisecond, 999) THEN None
  ELSE Some(TimeParts(hour, minute, second, millisecond))

\* Math.round(v * 1000) for a finite decimal v >= 0.
roundMillis(v) == (2 * v.n * 1000 + Pow10(v.e)) \div (2 * Pow10(v.e))

\* parseSecondsComponent
parseSecondsComponent(value) ==
  LET fractional(second, fractionValue) ==
        IF ~isFinite(second) \/ ~isFinite(fractionValue) THEN None
        ELSE Some([second |-> second,
                   millisecond |-> DecInt(Min(999, roundMillis(fractionValue)))])
      split(parts) ==
        fractional(StrToNumber(parts[1]),
                   StrToNumber(<<"0", ".">> \o (IF Len(parts) >= 2 THEN parts[2] ELSE <<>>)))
      plain(second) ==
        IF isFinite(second) THEN Some([second |-> second, millisecond |-> DecInt(0)])
        ELSE None
      seconds(trimmed) ==
        IF trimmed = <<>> THEN Some([second |-> DecInt(0), millisecond |-> DecInt(0)])
        ELSE IF Includes(trimmed, ".") THEN split(Split(trimmed, "."))
        ELSE plain(StrToNumber(trimmed))
  IN seconds(Trim(value))

\* parseColonSeparatedTime
parseColonSeparatedTime(value) ==
  LET withSeconds(hour, minute, seconds) ==
        IF seconds = None THEN None
        ELSE createTimeParts(hour, minute, seconds[1].second, seconds[1].millisecond)
      parts(segments, hour, minute) ==
        IF ~isFinite(hour) \/ ~isFinite(minute) THEN None
        ELSE IF Len(segments) = 2 THEN createTimeParts(hour, minute, DecInt(0), DecInt(0))
        ELSE withSeconds(hour, minute, parseSecondsComponent(segments[3]))
      time(segments) ==
        IF Len(segments) < 2 \/ Len(segments) > 3 THEN None
        ELSE parts(segments, StrToNumber(segments[1]), StrToNumber(segments[2]))
  IN time(Split(value, ":"))

\* A mutant of parseCompactTime: four digits are not read.
parseCompactTimeSixOnly(value) ==
  IF Len(value) = 6 /\ AllDigits(value)
  THEN createTimeParts(StrToNumber(Slice(value, 0, 2)), StrToNumber(Slice(value, 2, 4)),
                       StrToNumber(Slice(value, 4, 6)), DecInt(0))
  ELSE None

\* parseCompactTime
parseCompactTime(value) ==
  IF Len(value) = 6 /\ AllDigits(value)
  THEN createTimeParts(StrToNumber(Slice(value, 0, 2)), StrToNumber(Slice(value, 2, 4)),
                       StrToNumber(Slice(value, 4, 6)), DecInt(0))
  ELSE IF Len(value) = 4 /\ AllDigits(value)
  THEN createTimeParts(StrToNumber(Slice(value, 0, 2)), StrToNumber(Slice(value, 2, 4)),
                       DecInt(0), DecInt(0))
  ELSE None

\* parseTimeStringFast
parseTimeStringFast(value) ==
  LET fast(normalized) ==
        IF normalized = <<>> THEN None
        ELSE OrElse(IF Includes(normalized, ":")
                    THEN parseColonSeparatedTime(normalized) ELSE None,
                    parseCompactTime(normalized))
  IN fast(normalizeExcelString(value))

\* getHours(), getMinutes(), getSeconds(), getMilliseconds() of an instant.
timeOfInstant(t) ==
  TimeParts(DecInt(t.ms \div 3600000), DecInt((t.ms \div 60000) % 60),
            DecInt((t.ms \div 1000) % 60), DecInt(t.ms % 1000))

\* The time of "1970-01-01T" + normalized under dayjs.
IsoDayPrefix == <<"1", "9", "7", "0", "-", "0", "1", "-", "0", "1", "T">>

\* The time of day of a dayjs value, None when it is not valid.
timeOfDayjs(date) == IF date = None THEN None ELSE Some(timeOfInstant(date[1]))

\* The time of day of a parsed serial: H, M, S and Math.round((u % 1) * 1000).
timeOfSerial(parsed) ==
  IF parsed = None THEN None
  ELSE Some(TimeParts(DecInt(parsed[1].T \div 3600), DecInt((parsed[1].T \div 60) % 60),
                      DecInt(parsed[1].T % 60), DecInt((parsed[1].u + 50) \div 100)))

\* parseTimeCell
parseTimeCell(cell) ==
  LET fallback(normalized) ==
        IF normalized # <<>> THEN timeOfDayjs(dayjsParse(IsoDayPrefix \o normalized))
        ELSE None
      text(trimmed) ==
        IF trimmed = <<>> THEN None
        ELSE OrElse(parseTimeStringFast(trimmed), fallback(normalizeExcelString(trimmed)))
  IN IF kindOf(cell) = "date" THEN Some(timeOfInstant([day |-> cell[2], ms |-> cell[3]]))
     ELSE IF kindOf(cell) = "number" THEN timeOfSerial(parse_date_code(cell))
     ELSE IF kindOf(cell) = "text" THEN text(Trim(cell[2]))
     ELSE None

\* date.hour(h).minute(m).second(s).millisecond(ms).toDate(): the day of date
\* with its time of day replaced; the setters truncate, and an hour from 24 on
\* (or a millisecond of 1000) runs into the following day (second).
withTime(date, timeParts) ==
  LET t == Trunc(timeParts.hour) * 3600000 + Trunc(timeParts.minute) * 60000
             + Trunc(timeParts.second) * 1000 + Trunc(timeParts.millisecond)
  IN [day |-> date.day + (t \div MsPerDay), ms |-> t % MsPerDay]

\* A mutant of timePartsFor: the date cell's own time is never consulted.
timePartsForSecondaryOnly(secondaryTime, primaryCell) ==
  IF secondaryTime # None THEN secondaryTime[1] ELSE defaultTime

\* secondaryTime ?? parseTimeCell(primaryCell) ?? defaultTime
timePartsFor(secondaryTime, primaryCell) ==
  OrElse(secondaryTime, OrElse(parseTimeCell(primaryCell), Some(defaultTime)))[1]

\* A mutant of composeTimestamp: the secondary cell is never tried as a date.
composeTimestampPrimaryOnly(primaryCell, secondaryCell) ==
  IF parseDateCell(primaryCell) = None THEN None
  ELSE Some(withTime(parseDateCell(primaryCell)[1],
                     timePartsFor(parseTimeCell(secondaryCell), primaryCell)))

\* composeTimestamp
composeTimestamp(primaryCell, secondaryCell) ==
  LET reversed(secondaryDate, firstTime) ==
        IF secondaryDate = None THEN None
        ELSE IF firstTime # None THEN Some(withTime(secondaryDate[1], firstTime[1]))
        ELSE secondaryDate
      compose(primaryDate, secondaryTime) ==
        IF primaryDate # None
        THEN Some(withTime(primaryDate[1], timePartsFor(secondaryTime, primaryCell)))
        ELSE reversed(parseDateCell(secondaryCell), parseTimeCell(primaryCell))
  IN compose(parseDateCell(primaryCell), parseTimeCell(secondaryCell))

(***************************************************************************)
(* Dataset builder (dataParser.ts)                                         *)
(***************************************************************************)

\* The cells a header row needs: date, time and one data column.
MinHeaderCells == 3

\* (cell ?? '').toString().trim().length > 0
isNonEmptyCell(cell) == Trim(cellToString(cell)) # <<>>

\* row.some((cell) => ...)
isMeaningfulRow(row) == \E i \in 1..Len(row) : isNonEmptyCell(row[i])

\* sanitizeRows
sanitizeRows(rows) == SelectSeq(rows, isMeaningfulRow)

\* A mutant of countNonEmptyCells: every cell counts, empty or not.
countAllCells(row) == Len(row)

\* countNonEmptyCells
countNonEmptyCells(row) == Cardinality({i \in 1..Len(row) : isNonEmptyCell(row[i])})

\* toNumeric: Null, or Num of the number; the number of a native date is its
\* instant.
toNumeric(value) ==
  LET finite(parsed) == IF isFinite(parsed) THEN Num(parsed) ELSE Null
      text(trimmed) == IF trimmed = <<>> THEN Null ELSE finite(StrToNumber(trimmed))
  IN IF kindOf(value) = "absent" THEN Null
     ELSE IF kindOf(value) = "number" THEN Num(value)
     ELSE IF kindOf(value) = "date" THEN Num([day |-> value[2], ms |-> value[3]])
     ELSE text(Trim(cellToString(value)))

\* row.map((cell) => (cell ?? '').toString().trim())
trimmedCells(row) == [k \in 1..Len(row) |-> Trim(cellToString(row[k]))]

\* meaningfulRows.findIndex((row) => countNonEmptyCells(row) >= 3), counted
\* from 1, 0 when there is none.
RECURSIVE findHeaderIndex(_, _)
findHeaderIndex(meaningfulRows, i) ==
  IF i > Len(meaningfulRows) THEN 0
  ELSE IF countNonEmptyCells(meaningfulRows[i]) >= MinHeaderCells THEN i
  ELSE findHeaderIndex(meaningfulRows, i + 1)

\* The prefix of a generated label (`データ${index + 1}`), in ASCII.
DataPrefix == <<"d", "a", "t", "a">>

\* A mutant of normalizedKeys: the data columns begin at the fourth column.
normalizedKeysFromFourth(headers) ==
  [index \in 1..(Len(headers) - 3) |->
     IF Trim(headers[index + 3]) # <<>> THEN Trim(headers[index + 3])
     ELSE DataPrefix \o NumToStr(index)]

\* headers.slice(2).map((key, index) => trimmed || `データ${index + 1}`)
normalizedKeys(headers) ==
  [index \in 1..(Len(headers) - 2) |->
     IF Trim(headers[index + 2]) # <<>> THEN Trim(headers[index + 2])
     ELSE DataPrefix \o NumToStr(index)]

\* normalizedKeys.forEach((key) => { series[key] = [] })
emptySeries(keys) == [key \in Range(keys) |-> <<>>]

\* A mutant of pushRow: a cell without a number is left out of its series.
RECURSIVE pushRowSkippingGaps(_, _, _, _)
pushRowSkippingGaps(series, keys, row, index) ==
  IF index > Len(keys) THEN series
  ELSE pushRowSkippingGaps(
         IF toNumeric(cellAt(row, index + 2)) = Null THEN series
         ELSE [series EXCEPT ![keys[index]] = Append(@, toNumeric(cellAt(row, index + 2)))],
         keys, row, index + 1)

\* normalizedKeys.forEach((label, index) => series[label].push(toNumeric(row[index + 2])))
RECURSIVE pushRow(_, _, _, _)
pushRow(series, keys, row, index) ==
  IF index > Len(keys) THEN series
  ELSE pushRow([series EXCEPT ![keys[index]] = Append(@, toNumeric(cellAt(row, index + 2)))],
               keys, row, index + 1)

\* What a build gives: the error thrown or "ok", and for "ok" the dataset.
\* headerIndex (in the meaningful rows) and rowsKept (the positions, among the
\* rows after the header, of the rows that gave a timestamp) record where the
\* dataset came from.
BuildResult(status, headerIndex, keys, timestamps, series, rowsKept) ==
  [status |-> status, headerIndex |-> headerIndex, keys |-> keys,
   timestamps |-> timestamps, series |-> series, rowsKept |-> rowsKept]

BuildError(status, headerIndex) == BuildResult(status, headerIndex, <<>>, <<>>, <<>>, <<>>)

\* for (let i = 0; i < dataRows.length; i += 1) { ... }
RECURSIVE buildRows(_, _, _, _, _, _)
buildRows(dataRows, i, keys, timestamps, series, rowsKept) ==
  LET step(row, timestamp) ==
        IF timestamp = None
        THEN buildRows(dataRows, i + 1, keys, timestamps, series, rowsKept)
        ELSE buildRows(dataRows, i + 1, keys, Append(timestamps, timestamp[1]),
                       pushRow(series, keys, row, 1), Append(rowsKept, i))
  IN IF i > Len(dataRows) THEN <<timestamps, series, rowsKept>>
     ELSE step(dataRows[i], composeTimestamp(cellAt(dataRows[i], 1), cellAt(dataRows[i], 2)))

\* A mutant of datasetOf: the dataset is returned without a look at timestamps.
datasetUnchecked(headerIndex, keys, out) ==
  BuildResult("ok", headerIndex, keys, out[1], out[2], out[3])

\* if (!timestamps.length) throw new Error(...); return { timestamps, series }
datasetOf(headerIndex, keys, out) ==
  IF out[1] = <<>> THEN BuildError("NoValidTimestamps", headerIndex)
  ELSE BuildResult("ok", headerIndex, keys, out[1], out[2], out[3])

\* buildParsedData
buildParsedData(rows) ==
  LET rowsOf(meaningfulRows, headerIndex, keys) ==
        datasetOf(headerIndex, keys,
                buildRows(SubSeq(meaningfulRows, headerIndex + 1, Len(meaningfulRows)),
                          1, keys, <<>>, emptySeries(keys), <<>>))
      header(meaningfulRows, headerIndex, headers) ==
        IF Len(headers) < MinHeaderCells THEN BuildError("InvalidHeader", headerIndex)
        ELSE rowsOf(meaningfulRows, headerIndex, normalizedKeys(headers))
      locate(meaningfulRows, headerIndex) ==
        IF headerIndex = 0 THEN BuildError("HeaderNotFound", 0)
        ELSE header(meaningfulRows, headerIndex, trimmedCells(meaningfulRows[headerIndex]))
      build(meaningfulRows) == locate(meaningfulRows, findHeaderIndex(meaningfulRows, 1))
  IN build(sanitizeRows(rows))

(***************************************************************************)
(* Dataset builder of the page (App.tsx)                                   *)
(***************************************************************************)

\* parseDateCell of App.tsx: the strict formats, then dayjs(trimmed).
parseDateCellApp(cell) ==
  LET text(trimmed) ==
        IF trimmed = <<>> THEN None
        ELSE OrElse(strictDateFrom(trimmed, 1), dayjsParse(trimmed))
  IN IF kindOf(cell) = "date" THEN Some([day |-> cell[2], ms |-> cell[3]])
     ELSE IF kindOf(cell) = "number" THEN parseExcelDate(cell)
     ELSE IF kindOf(cell) = "text" THEN text(Trim(cell[2]))
     ELSE None

\* The formats parseTimeCell of App.tsx tries, as their tokens.
TimeFormats ==
  << <<"HH", ":", "mm", ":", "ss", ".", "SSS">>, <<"HH", ":", "mm", ":", "ss", ".", "SS">>,
     <<"HH", ":", "mm", ":", "ss", ".", "S">>, <<"HH", ":", "mm", ":", "ss">>,
     <<"HH", ":", "mm">>, <<"HH", "mm", "ss">>, <<"HH", "mm">> >>

\* The digits a token stands for (0 for a separator).
tokenWidth(token) ==
  CASE token \in {"HH", "mm", "ss", "SS"} -> 2
    [] token = "SSS" -> 3
    [] token = "S" -> 1
    [] OTHER -> 0

\* The fields of s read token by token, None unless s is the format at full
\* width.
RECURSIVE readTokens(_, _, _, _)
readTokens(format, k, s, fields) ==
  IF k > Len(format) THEN (IF s = <<>> THEN Some(fields) ELSE None)
  ELSE LET w == tokenWidth(format[k])
       IN IF w = 0
          THEN IF s # <<>> /\ Head(s) = format[k]
               THEN readTokens(format, k + 1, Tail(s), fields) ELSE None
          ELSE IF Len(s) >= w /\ AllDigits(SubSeq(s, 1, w))
               THEN readTokens(format, k + 1, SubSeq(s, w + 1, Len(s)),
                               [fields EXCEPT ![format[k]] = DigitsValue(SubSeq(s, 1, w))])
               ELSE None

\* dayjs(s, format, true) for a time format: the strict mode accepts s when
\* formatting the parsed time gives s back, so every field has its full
\* width and is in range; the formatter has no token SS or S and leaves them
\* as letters, so a format with one of them accepts nothing.
dayjsStrictTime(s, format) ==
  LET time(fields) ==
        IF fields = None \/ "SS" \in Range(format) \/ "S" \in Range(format) THEN None
        ELSE IF fields[1]["HH"] > 23 \/ fields[1]["mm"] > 59 \/ fields[1]["ss"] > 59 THEN None
        ELSE Some(TimeParts(DecInt(fields[1]["HH"]), DecInt(fields[1]["mm"]),
                            DecInt(fields[1]["ss"]), DecInt(fields[1]["SSS"])))
  IN time(readTokens(format, 1, s, [token \in {"HH", "mm", "ss", "SSS", "SS", "S"} |-> 0]))

\* for (const format of formats) { candidate = dayjs(trimmed, format, true); ... }
RECURSIVE strictTimeFrom(_, _)
strictTimeFrom(trimmed, k) ==
  IF k > Len(TimeFormats) THEN None
  ELSE OrElse(dayjsStrictTime(trimmed, TimeFormats[k]), strictTimeFrom(trimmed, k + 1))

\* parseTimeCell of App.tsx: always a time of day, defaultTime when it reads
\* none.
parseTimeCellApp(cell) ==
  LET text(trimmed) ==
        IF trimmed = <<>> THEN Some(defaultTime)
        ELSE OrElse(strictTimeFrom(trimmed, 1),
                    timeOfDayjs(dayjsParse(IsoDayPrefix \o trimmed)))
  IN OrElse(IF kindOf(cell) = "date"
            THEN Some(timeOfInstant([day |-> cell[2], ms |-> cell[3]]))
            ELSE IF kindOf(cell) = "number" THEN timeOfSerial(parse_date_code(cell))
            ELSE IF kindOf(cell) = "text" THEN text(Trim(cell[2]))
            ELSE None,
            Some(defaultTime))[1]

\* composeTimestamp of App.tsx
composeTimestampApp(primaryCell, secondaryCell) ==
  LET reversed(secondaryDate) ==
        IF secondaryDate = None THEN None
        ELSE Some(withTime(secondaryDate[1], parseTimeCellApp(primaryCell)))
      compose(primaryDate) ==
        IF primaryDate # None
        THEN Some(withTime(primaryDate[1], parseTimeCellApp(secondaryCell)))
        ELSE reversed(parseDateCellApp(secondaryCell))
  IN compose(parseDateCellApp(primaryCell))

\* meaningfulRows.findIndex((row) => row.length >= 3), counted from 1, 0 when
\* there is none.
RECURSIVE findHeaderIndexApp(_, _)
findHeaderIndexApp(meaningfulRows, i) ==
  IF i > Len(meaningfulRows) THEN 0
  ELSE IF Len(meaningfulRows[i]) >= MinHeaderCells THEN i
  ELSE findHeaderIndexApp(meaningfulRows, i + 1)

RECURSIVE buildRowsApp(_, _, _, _, _, _)
buildRowsApp(dataRows, i, keys, timestamps, series, rowsKept) ==
  LET step(row, timestamp) ==
        IF timestamp = None
        THEN buildRowsApp(dataRows, i + 1, keys, timestamps, series, rowsKept)
        ELSE buildRowsApp(dataRows, i + 1, keys, Append(timestamps, timestamp[1]),
                          pushRow(series, keys, row, 1), Append(rowsKept, i))
  IN IF i > Len(dataRows) THEN <<timestamps, series, rowsKept>>
     ELSE step(dataRows[i], composeTimestampApp(cellAt(dataRows[i], 1), cellAt(dataRows[i], 2)))

\* buildParsedData of App.tsx
buildParsedDataApp(rows) ==
  LET dataset(headerIndex, keys, out) ==
        IF out[1] = <<>> THEN BuildError("NoValidTimestamps", headerIndex)
        ELSE BuildResult("ok", headerIndex, keys, out[1], out[2], out[3])
      rowsOf(meaningfulRows, headerIndex, keys) ==
        dataset(headerIndex, keys,
                buildRowsApp(SubSeq(meaningfulRows, headerIndex + 1, Len(meaningfulRows)),
                             1, keys, <<>>, emptySeries(keys), <<>>))
      header(meaningfulRows, headerIndex, headers) ==
        IF Len(headers) < MinHeaderCells THEN BuildError("InvalidHeader", headerIndex)
        ELSE rowsOf(meaningfulRows, headerIndex, normalizedKeys(headers))
      locate(meaningfulRows, headerIndex) ==
        IF headerIndex = 0 THEN BuildError("HeaderNotFound", 0)
        ELSE header(meaningfulRows, headerIndex, trimmedCells(meaningfulRows[headerIndex]))
      build(meaningfulRows) == locate(meaningfulRows, findHeaderIndexApp(meaningfulRows, 1))
  IN build(sanitizeRows(rows))

(***************************************************************************)
(* File pipeline and parser worker (dataParser.ts, parserWorker.ts)        *)
(***************************************************************************)

UpperChars == <<"A", "B", "C", "D", "E", "F", "G", "H", "I", "J", "K", "L", "M", "N", "O", "P", "Q", "R", "S", "T", "U", "V", "W", "X", "Y", "Z">>
LowerChars == <<"a", "b", "c", "d", "e", "f", "g", "h", "i", "j", "k", "l", "m", "n", "o", "p", "q", "r", "s", "t", "u", "v", "w", "x", "y", "z">>

\* s.toLowerCase(), for the letters A..Z.
toLowerCase(s) ==
  [i \in 1..Len(s) |->
     IF \E k \in 1..Len(UpperChars) : UpperChars[k] = s[i]
     THEN LowerChars[CHOOSE k \in 1..Len(UpperChars) : UpperChars[k] = s[i]]
     ELSE s[i]]

\* s.includes(sub)
IncludesText(s, sub) ==
  \E i \in 0..(Len(s) - Len(sub)) : SubSeq(s, i + 1, i + Len(sub)) = sub

ExtCsv == <<"c", "s", "v">>
ExtXlsx == <<"x", "l", "s", "x">>
ExtXls == <<"x", "l", "s">>
TypeSpreadsheetml == <<"s", "p", "r", "e", "a", "d", "s", "h", "e", "e", "t", "m", "l">>

\* file.name.split('.').pop()?.toLowerCase()
extensionOf(name) == toLowerCase(Split(name, ".")[Len(Split(name, "."))])

\* A mutant of detectFileKind: the content type is not consulted.
detectFileKindByExtension(file) ==
  LET kind(ext) ==
        IF ext = ExtCsv THEN "csv"
        ELSE IF ext = ExtXlsx THEN "xlsx"
        ELSE IF ext = ExtXls THEN "xls"
        ELSE "null"
  IN kind(extensionOf(file.name))

\* detectFileKind: 'csv' | 'xlsx' | 'xls' | null.  file.type is the empty string
\* when the input has none (file.type ?? '').
detectFileKind(file) ==
  LET kind(ext) ==
        IF ext = ExtCsv THEN "csv"
        ELSE IF ext = ExtXlsx THEN "xlsx"
        ELSE IF ext = ExtXls THEN "xls"
        ELSE IF IncludesText(file.type, ExtCsv) THEN "csv"
        ELSE IF IncludesText(file.type, TypeSpreadsheetml) THEN "xlsx"
        ELSE "null"
  IN kind(extensionOf(file.name))

\* An Error's message: which text it is, and the values its template embeds.
ErrorMessage(text, embedded) == [text |-> text, embedded |-> embedded]

\* What parseFileInput settles with: the dataset it resolves to or the error it
\* rejects with; reader and built record which reader ran on the buffer and
\* whether buildParsedData ran.
Resolved(reader, dataset) ==
  [ok |-> TRUE, dataset |-> dataset, reader |-> reader, built |-> TRUE]
Rejected(reader, ranBuilder, error) ==
  [ok |-> FALSE, error |-> error, reader |-> reader, built |-> ranBuilder]

\* The reader parseFileInput gives the buffer to, by kind.
readerFor(kind) ==
  IF kind = "csv" THEN "delimited"
  ELSE IF kind = "xlsx" \/ kind = "xls" THEN "spreadsheet"
  ELSE "none"

\* Papa.parse reports an error for the buffer: parseCsvBuffer rejects.
readerRejects(file, reader) == reader = "delimited" /\ file.malformed

\* What parseFileInput settles with for the reader chosen and, when rows were
\* read, for the result data of buildParsedData(rows).
settleFile(file, reader, data) ==
  IF reader = "none"
  THEN Rejected(reader, FALSE, ErrorMessage("UnsupportedFormat", <<file.name>>))
  ELSE IF readerRejects(file, reader)
  THEN Rejected(reader, FALSE, ErrorMessage("MalformedTable", <<>>))
  ELSE IF data.status = "ok"
  THEN Resolved(reader, [data |-> [timestamps |-> data.timestamps, series |-> data.series],
                         fileName |-> file.name, label |-> file.name])
  ELSE Rejected(reader, TRUE, ErrorMessage(data.status, <<>>))

\* parseFileInput.  The buffer of a file is given by what its readers make of
\* it: file.rows are the rows read from it, and file.malformed says that
\* Papa.parse reports an error for it (results.errors.length > 0).
\* buildParsedData runs only on rows that were read.
parseFileInput(file) ==
  CHOOSE settled \in
    UNION {{settleFile(file, reader, data) :
              data \in {IF reader = "none" \/ readerRejects(file, reader)
                        THEN BuildError("pending", 0)
                        ELSE buildParsedData(file.rows)}} :
           reader \in {readerFor(detectFileKind(file))}} : TRUE

\* The state of one message handler of the worker: where it is, how many files
\* parseFileInputs has parsed, its results, and the error it caught.
Handler(pc, parsed, results, error) ==
  [pc |-> pc, parsed |-> parsed, results |-> results, error |-> error]

NoError == ErrorMessage("", <<>>)
QueuedHandler == Handler("queued", 0, <<>>, NoError)

\* A mutant of the loop of parseFileInputs: a file that fails is left out.
parseNextSkippingFailures(handler, settled) ==
  IF settled.ok
  THEN [handler EXCEPT !.parsed = @ + 1, !.results = Append(@, settled.dataset)]
  ELSE [handler EXCEPT !.parsed = @ + 1]

\* One turn of the loop of parseFileInputs: `const parsed = await
\* parseFileInput(file); results.push(parsed)`, the rejection leaving the loop
\* and the function for the catch of the handler.
parseNext(handler, settled) ==
  IF settled.ok
  THEN [handler EXCEPT !.parsed = @ + 1, !.results = Append(@, settled.dataset)]
  ELSE [handler EXCEPT !.pc = "failed", !.error = settled.error]

\* A mutant of responseId: the id of the message received last.
responseIdOfLatest(messages, h, latest) == messages[latest].id

\* const { id, files } = event.data: the id a handler answers with is that of
\* its own event.
responseId(messages, h, latest) == messages[h].id

(***************************************************************************)
(* Inputs of the label annotation and of the merge                         *)
(***************************************************************************)

\* Datasets per annotateDatasetLabels call.
MaxDatasets == 3
\* Rows (timestamps) per parsed file, and distinct getTime() values.
MaxRows == 2
MaxInstant == 3
\* handleFile: Array.from(event.target.files).slice(0, 2)
MaxLoadFiles == 2

StrA == <<"a">>
StrB == <<"b">>
\* "a (2)": a label that already has the annotated form.
StrA2 == <<"a", " ", "(", "2", ")">>

\* (label, fileName) of the datasets given to annotateDatasetLabels.
LabelPairs ==
  { <<StrA, StrA>>, <<StrB, StrB>>, <<StrA2, StrA2>>, <<<<>>, StrA>>, <<<<>>, <<>> >> }

\* The i-th dataset of a call: its data is tagged with its position.
AnnotateInputs ==
  UNION { { [i \in 1..n |-> [data |-> i, fileName |-> c[i][2], label |-> c[i][1]]]
            : c \in [1..n -> LabelPairs] }
          : n \in 1..MaxDatasets }

\* File names and column labels of the files selected in handleFile.
NameACsv == <<"a", ".", "c", "s", "v">>
NameACsvBCsv == <<"a", ".", "c", "s", "v", "]", " ", "b", ".", "c", "s", "v">>
ColX == <<"X">>
ColBCsvX == <<"b", ".", "c", "s", "v", "]", " ", "X">>

FileProfiles ==
  { [fileName |-> NameACsv, columns |-> <<ColX, ColBCsvX>>],
    [fileName |-> NameACsvBCsv, columns |-> <<ColX>>] }

columnPosition(columns, nm) == CHOOSE c \in 1..Len(columns) : columns[c] = nm

\* The dataset parseFileInput / handleFile builds for the f-th selected file:
\* label = fileName = file.name; the value in row r of the c-th data column is
\* 100 f + 10 c + r, and the cells of row gapRow are empty (null).
ParsedFile(profile, f, ts, gapRow) ==
  [data |->
     [timestamps |-> ts,
      series |-> [nm \in Range(profile.columns) |->
                    [r \in 1..Len(ts) |->
                       IF r = gapRow THEN Null
                       ELSE Num(100 * f + 10 * columnPosition(profile.columns, nm) + r)]]],
   fileName |-> profile.fileName,
   label |-> profile.fileName]

TimestampLists == UNION { [1..n -> 1..MaxInstant] : n \in 1..MaxRows }

\* gapRow is 0 (no empty row) or the file's last row.
SelectableFiles(f) ==
  UNION { { ParsedFile(p, f, ts, g) : p \in FileProfiles, g \in {0, Len(ts)} }
          : ts \in TimestampLists }

\* The files handleFile keeps of a selection: its first MaxLoadFiles ones.
SelectedFiles(selection) == SubSeq(selection, 1, Min(Len(selection), MaxLoadFiles))

(***************************************************************************)
(* Cells given to the timestamp composer                                   *)
(***************************************************************************)

\* "2025/01/02", "20250102" and "2025-01-02 08:30"
TextDateSlash == TextCell(<<"2", "0", "2", "5", "/", "0", "1", "/", "0", "2">>)
TextDateCompact == TextCell(<<"2", "0", "2", "5", "0", "1", "0", "2">>)
TextDateTime ==
  TextCell(<<"2", "0", "2", "5", "-", "0", "1", "-", "0", "2", " ", "0", "8", ":", "3", "0">>)
\* "08:30", "'08:30:15.5" and "0830"
TextTimeColon == TextCell(<<"0", "8", ":", "3", "0">>)
TextTimeQuoted == TextCell(<<"'", "0", "8", ":", "3", "0", ":", "1", "5", ".", "5">>)
TextTimeCompact == TextCell(<<"0", "8", "3", "0">>)
\* "abc" and " "
TextWord == TextCell(<<"a", "b", "c">>)
TextBlank == TextCell(<<" ">>)

\* 45659 (the serial of 2025-01-02), 45659.5, 0.354166... (08:30) and -1
SerialDate == NumberCell(45659, 0, 0)
SerialDateNoon == NumberCell(45659, 43200, 0)
SerialTime == NumberCell(0, 30600, 0)
NegativeNumber == NumberCell(-1, 0, 0)

\* new Date(2025, 0, 2), new Date(2025, 0, 2, 8, 30) and the time-only date
\* new Date(1899, 11, 30, 8, 30).
NativeDate == DateCell(DaysFromCivil(2025, 1, 2), 0)
NativeDateTime == DateCell(DaysFromCivil(2025, 1, 2), 30600000)
NativeTime == DateCell(DaysFromCivil(1899, 12, 30), 30600000)

\* Cells that hold a date and no time, and cells that hold a time and no date.
DateOnlyCells == {TextDateSlash, TextDateCompact, SerialDate, NativeDate}
TimeOnlyCells == {TextTimeColon, TextTimeQuoted, TextTimeCompact, SerialTime, NativeTime}

ComposeCells ==
  DateOnlyCells \cup TimeOnlyCells
    \cup {TextDateTime, SerialDateNoon, NativeDateTime, TextWord, TextBlank,
          NegativeNumber, AbsentCell}

(***************************************************************************)
(* Grids given to the dataset builders                                     *)
(***************************************************************************)

MaxGridRows == 3

TextEmpty == TextCell(<<>>)
LabelDate == TextCell(<<"d">>)
LabelTime == TextCell(<<"t">>)
LabelA == TextCell(<<"A">>)
LabelB == TextCell(<<"B">>)
TextLog == TextCell(<<"l", "o", "g">>)
TextOne == TextCell(<<"1">>)
TextTwo == TextCell(<<" ", "2", ".", "5">>)
TextTimeLater == TextCell(<<"0", "8", ":", "3", "1">>)

\* A row without a non-empty cell, a one-cell banner and a banner padded with
\* empty cells to the width of the sheet.
BlankRow == <<TextEmpty, TextBlank>>
BannerRow == <<TextLog>>
PaddedBannerRow == <<TextLog, TextEmpty, TextEmpty, TextEmpty>>
\* Headers: two labels, one label twice, and an empty label.
HeaderRow == <<LabelDate, LabelTime, LabelA, LabelB>>
HeaderRepeatedRow == <<LabelDate, LabelTime, LabelA, LabelA>>
HeaderGapRow == <<LabelDate, LabelTime, TextEmpty, LabelB>>
\* Data rows: of the header's width, shorter, longer (with an empty and a
\* non-numeric cell), without a date, and of typed cells.
DataRow == <<TextDateSlash, TextTimeColon, TextOne, TextTwo>>
ShortRow == <<TextDateSlash, TextTimeLater, TextOne>>
LongRow == <<TextDateCompact, TextTimeCompact, TextEmpty, TextWord, TextOne>>
UndatedRow == <<TextWord, TextTimeColon, TextOne, TextTwo>>
TypedRow == <<SerialDate, SerialTime, NumberCell(7, 0, 0), AbsentCell>>
\* A row without a date whose time cell is a number.
UndatedSerialRow == <<TextWord, SerialTime, TextOne, TextTwo>>

GridRows ==
  {BlankRow, BannerRow, PaddedBannerRow, HeaderRow, HeaderRepeatedRow, HeaderGapRow,
   DataRow, ShortRow, LongRow, UndatedRow, TypedRow, UndatedSerialRow}

RECURSIVE GridsOf(_)
GridsOf(n) ==
  IF n = 0 THEN {<<>>}
  ELSE GridsOf(n - 1) \cup {Append(g, r) : g \in {h \in GridsOf(n - 1) : Len(h) = n - 1}, r \in GridRows}

Grids == GridsOf(MaxGridRows) \ {<<>>}

(***************************************************************************)
(* Files and requests given to the pipeline and to the worker              *)
(***************************************************************************)

\* Files per call of parseFileInputs, and request messages per worker.
MaxRequestFiles == 3
MaxRequests == 2

FileInput(name, type, rows, malformed) ==
  [name |-> name, type |-> type, rows |-> rows, malformed |-> malformed]

NameBXlsx == <<"b", ".", "X", "L", "S", "X">>
NameCXls == <<"c", ".", "x", "l", "s">>
NameECsv == <<"e", ".", "c", "s", "v">>
NameMCsv == <<"m", ".", "c", "s", "v">>
NameDTxt == <<"d", ".", "t", "x", "t">>
NameD == <<"d">>
TypeNone == <<>>
TypeCsv == <<"t", "e", "x", "t", "/", "c", "s", "v">>
TypeSheet ==
  <<"a", "p", "p", "l", "i", "c", "a", "t", "i", "o", "n", "/", "v", "n", "d", ".", "o", "p", "e", "n", "x", "m", "l", "f", "o", "r", "m", "a", "t", "s", "-">>
    \o <<"o", "f", "f", "i", "c", "e", "d", "o", "c", "u", "m", "e", "n", "t", ".", "s", "p", "r", "e", "a", "d", "s", "h", "e", "e", "t", "m", "l", ".", "s", "h", "e", "e", "t">>

\* Grids: of text cells, of typed cells, without a header row, and without a
\* row that gives a timestamp.
GoodGrid == <<HeaderRow, DataRow>>
TypedGrid == <<HeaderRow, TypedRow>>
NoHeaderGrid == <<BannerRow>>
NoTimestampGrid == <<HeaderRow, UndatedRow>>

GoodCsv == FileInput(NameACsv, TypeNone, GoodGrid, FALSE)
TypedXlsx == FileInput(NameBXlsx, TypeSheet, TypedGrid, FALSE)
NoHeaderXls == FileInput(NameCXls, TypeNone, NoHeaderGrid, FALSE)
NoTimestampCsv == FileInput(NameECsv, TypeCsv, NoTimestampGrid, FALSE)
MalformedCsv == FileInput(NameMCsv, TypeNone, GoodGrid, TRUE)
UntypedTxt == FileInput(NameDTxt, TypeNone, GoodGrid, FALSE)
CsvTypedTxt == FileInput(NameDTxt, TypeCsv, GoodGrid, FALSE)
SheetTypedFile == FileInput(NameD, TypeSheet, TypedGrid, FALSE)

ParseFiles ==
  {GoodCsv, TypedXlsx, NoHeaderXls, NoTimestampCsv, MalformedCsv, UntypedTxt, CsvTypedTxt,
   SheetTypedFile}

\* The file lists of the requests sent to a worker that serves several.
WorkerFileLists ==
  {<<>>, <<GoodCsv>>, <<NoHeaderXls>>, <<GoodCsv, TypedXlsx>>, <<GoodCsv, NoHeaderXls>>}

(***************************************************************************)
(* handleFile and the state of the page (App.tsx)                          *)
(***************************************************************************)

\* Invocations of handleFile per run of the page.
MaxLoads == 2

\* The useState values that handleFile and resetState write, as first rendered
\* (axisRanges and inputKey, which no load reads, are left out).
InitialPage ==
  [parsedData |-> Null, seriesVisibility |-> <<>>, seriesAxis |-> <<>>,
   fileName |-> <<>>, loadedFiles |-> <<>>, errorMessage |-> None, isLoading |-> FALSE]

\* resetState
resetState(p) ==
  [p EXCEPT !.parsedData = Null, !.seriesVisibility = <<>>, !.seriesAxis = <<>>,
            !.fileName = <<>>]

\* initializeSeriesState(series)
initializeSeriesState(p, series) ==
  [p EXCEPT !.seriesVisibility = [key \in DOMAIN series |-> TRUE],
            !.seriesAxis = [key \in DOMAIN series |-> "y1"]]

\* labeled.map((dataset) => dataset.fileName).join(', ')
RECURSIVE joinFileNames(_, _)
joinFileNames(labeled, i) ==
  IF i > Len(labeled) THEN <<>>
  ELSE IF i = Len(labeled) THEN labeled[i].fileName
  ELSE labeled[i].fileName \o <<",", " ">> \o joinFileNames(labeled, i + 1)

\* Date.getTime() of a timestamp, as mergeParsedDatasets orders and keys them,
\* in seconds: the files loaded here have whole seconds, and the milliseconds
\* since 1970 of a day of this century are past the integers TLC computes with.
getTime(t) == t.day * (MsPerDay \div 1000) + (t.ms \div 1000)

\* One invocation of handleFile: the files it took, the file whose parse it
\* awaits, the datasets pushed, where it is ("awaiting", "done", "failed"),
\* the error caught, and how many earlier invocations were awaiting a parse
\* when it was invoked.
Load(selected, overlapping) ==
  [files |-> selected, awaiting |-> 0, datasets |-> <<>>, pc |-> "entered",
   error |-> ErrorMessage("", <<>>), overlapping |-> overlapping]

\* catch: setErrorMessage(error.message); resetState(); finally:
\* setIsLoading(false)
loadFailed(p, error) ==
  [resetState([p EXCEPT !.errorMessage = Some(error)]) EXCEPT !.isLoading = FALSE]

\* The end of the try block and the finally: annotateDatasetLabels,
\* mergeParsedDatasets, setParsedData, initializeSeriesState, setFileName,
\* setLoadedFiles, setIsLoading(false)
loadSucceeded(p, datasets) ==
  LET labeled == annotateDatasetLabels(datasets)
      shown(merged) ==
        [initializeSeriesState([p EXCEPT !.parsedData = merged], merged.series)
           EXCEPT !.fileName = joinFileNames(labeled, 1),
                  !.loadedFiles = [i \in 1..Len(labeled) |->
                                     [fileName |-> labeled[i].fileName,
                                      label |-> labeled[i].label]],
                  !.isLoading = FALSE]
  IN shown(mergeParsedDatasets(labeled))

\* const ext = file.name.split('.').pop()?.toLowerCase(): the parser handleFile
\* awaits for the file, "none" where it throws instead.
loadReader(file) ==
  IF extensionOf(file.name) = ExtCsv THEN "delimited"
  ELSE IF extensionOf(file.name) \in {ExtXlsx, ExtXls} THEN "spreadsheet"
  ELSE "none"

\* The loop of handleFile from the top of its turn for the i-th file to its
\* next await, or to the end of the handler: <<page, invocation>>.
enterTurn(p, load, i) ==
  IF i > Len(load.files)
  THEN <<loadSucceeded(p, load.datasets), [load EXCEPT !.pc = "done"]>>
  ELSE IF loadReader(load.files[i]) = "none"
  THEN <<loadFailed(p, ErrorMessage("UnsupportedFile", <<>>)),
         [load EXCEPT !.pc = "failed", !.error = ErrorMessage("UnsupportedFile", <<>>)]>>
  ELSE <<p, [load EXCEPT !.pc = "awaiting", !.awaiting = i]>>

\* The handler from the settling of the parse it awaits: the rejection of
\* parseCsvFile, or buildParsedData(rows) with result data, the push of the
\* dataset and the next turn of the loop.
resumeTurn(p, load, data) ==
  LET file == load.files[load.awaiting]
      caught(error) ==
        <<loadFailed(p, error), [load EXCEPT !.pc = "failed", !.error = error]>>
  IN IF readerRejects(file, loadReader(file)) THEN caught(ErrorMessage("MalformedTable", <<>>))
     ELSE IF data.status # "ok" THEN caught(ErrorMessage(data.status, <<>>))
     ELSE enterTurn(p,
                    [load EXCEPT !.datasets =
                       Append(@, [data |-> [timestamps |->
                                              [r \in 1..Len(data.timestamps) |->
                                                 getTime(data.timestamps[r])],
                                            series |-> data.series],
                                  fileName |-> file.name, label |-> file.name])],
                    load.awaiting + 1)

\* The FileLists a change event of the input carries.
LoadSelections ==
  {<<>>, <<GoodCsv>>, <<TypedXlsx>>, <<GoodCsv, TypedXlsx>>, <<NoHeaderXls>>,
   <<MalformedCsv>>, <<UntypedTxt>>, <<GoodCsv, UntypedTxt>>,
   <<TypedXlsx, GoodCsv, NoHeaderXls>>}

\* buildParsedData(rows) of App.tsx for the rows of each file that can be
\* selected.
LoadableFiles == UNION {Range(selection) : selection \in LoadSelections}
builtRows == [file \in LoadableFiles |-> buildParsedDataApp(file.rows)]

(***************************************************************************)
(* Specifications                                                          *)
(***************************************************************************)

AnnotateIdle == annIn = <<>> /\ annOut = <<>> /\ annDone = FALSE
MergeIdle == files = <<>> /\ loadedFiles = <<>> /\ parsedData = Null /\ loadDone = FALSE

ComposeIdle ==
  /\ rowCell0 = AbsentCell /\ rowCell1 = AbsentCell
  /\ composed = None /\ composedSwapped = None /\ composePc = "idle"

\* No build has run.
NotBuilt == BuildError("pending", 0)

BuildIdle == grid = <<>> /\ built = NotBuilt /\ builtApp = NotBuilt
WorkerIdle == inbox = <<>> /\ handlers = <<>> /\ parseLog = <<>> /\ outbox = <<>>
DecodeIdle == csvBuffer = <<>> /\ csvText = None
CellIdle ==
  /\ cellText = <<>> /\ cellAs = "none" /\ parsedPlain = None /\ parsedQuoted = None
  /\ cellDone = FALSE
ReadIdle ==
  /\ readCell = AbsentCell /\ readAs = "none" /\ readResult = None /\ readFast = None
  /\ readDone = FALSE
LoadIdle == page = InitialPage /\ loads = <<>>

\* buildParsedData of dataParser.ts on the grid, as the worker calls it.
BuildParsedData ==
  /\ grid \in Grids /\ built = NotBuilt
  /\ built' = buildParsedData(grid)
  /\ UNCHANGED <<grid, builtApp, annVars, mergeVars, composeVars, workerVars, decodeVars, cellVars, readVars, loadVars>>

\* buildParsedData of App.tsx on the grid, as handleFile calls it.
BuildParsedDataApp ==
  /\ grid \in Grids /\ builtApp = NotBuilt
  /\ builtApp' = buildParsedDataApp(grid)
  /\ UNCHANGED <<grid, built, annVars, mergeVars, composeVars, workerVars, decodeVars, cellVars, readVars, loadVars>>

\* composeTimestamp on the two cells of a row, in the row's column order.
ComposeTimestamp ==
  /\ composePc = "row"
  /\ composed' = composeTimestamp(rowCell0, rowCell1)
  /\ composePc' = "composed"
  /\ UNCHANGED <<rowCell0, rowCell1, composedSwapped, annVars, mergeVars, buildVars, workerVars, decodeVars, cellVars, readVars, loadVars>>

\* composeTimestamp on the same two cells with the columns exchanged.
ComposeTimestampSwapped ==
  /\ composePc = "composed"
  /\ composedSwapped' = composeTimestamp(rowCell1, rowCell0)
  /\ composePc' = "both"
  /\ UNCHANGED <<rowCell0, rowCell1, composed, annVars, mergeVars, buildVars, workerVars, decodeVars, cellVars, readVars, loadVars>>

\* A call of annotateDatasetLabels.
AnnotateCall ==
  /\ annIn # <<>>
  /\ ~annDone
  /\ annOut' = annotateDatasetLabels(annIn)
  /\ annDone' = TRUE
  /\ UNCHANGED <<annIn, mergeVars, composeVars, buildVars, workerVars, decodeVars, cellVars, readVars, loadVars>>

\* handleFile from the parsed datasets on: annotateDatasetLabels,
\* mergeParsedDatasets, setParsedData, setLoadedFiles.
HandleFile ==
  /\ files # <<>>
  /\ ~loadDone
  /\ LET labeled == annotateDatasetLabels(files)
         merged == mergeParsedDatasets(labeled)
     IN /\ parsedData' = merged
        /\ loadedFiles' = [i \in 1..Len(labeled) |->
                             [fileName |-> labeled[i].fileName, label |-> labeled[i].label]]
  /\ loadDone' = TRUE
  /\ UNCHANGED <<files, annVars, composeVars, buildVars, workerVars, decodeVars, cellVars, readVars, loadVars>>

InitAnnotate ==
  /\ annIn \in AnnotateInputs /\ annOut = <<>> /\ annDone = FALSE
  /\ MergeIdle /\ ComposeIdle /\ BuildIdle /\ WorkerIdle /\ DecodeIdle /\ CellIdle /\ ReadIdle /\ LoadIdle

InitMerge ==
  /\ \E first \in SelectableFiles(1), second \in SelectableFiles(2) :
       files \in {SelectedFiles(<<first>>), SelectedFiles(<<first, second>>)}
  /\ loadedFiles = <<>> /\ parsedData = Null /\ loadDone = FALSE
  /\ AnnotateIdle /\ ComposeIdle /\ BuildIdle /\ WorkerIdle /\ DecodeIdle /\ CellIdle /\ ReadIdle /\ LoadIdle

InitCompose ==
  /\ rowCell0 \in ComposeCells /\ rowCell1 \in ComposeCells
  /\ composed = None /\ composedSwapped = None /\ composePc = "row"
  /\ AnnotateIdle /\ MergeIdle /\ BuildIdle /\ WorkerIdle /\ DecodeIdle /\ CellIdle /\ ReadIdle /\ LoadIdle

InitBuild ==
  /\ grid \in Grids /\ built = NotBuilt /\ builtApp = NotBuilt
  /\ AnnotateIdle /\ MergeIdle /\ ComposeIdle /\ WorkerIdle /\ DecodeIdle /\ CellIdle /\ ReadIdle /\ LoadIdle

NextAnnotate == AnnotateCall
NextMerge == HandleFile

SpecAnnotate == InitAnnotate /\ [][NextAnnotate]_vars
SpecMerge == InitMerge /\ [][NextMerge]_vars

NextBuild == BuildParsedData \/ BuildParsedDataApp
SpecBuild == InitBuild /\ [][NextBuild]_vars

NextCompose == ComposeTimestamp \/ ComposeTimestampSwapped
SpecCompose == InitCompose /\ [][NextCompose]_vars

\* The message event of the next request: its handler starts.  Message events
\* are dispatched in the order the messages were sent.
ReceiveMessage ==
  /\ \E h \in 1..Len(inbox) :
       /\ handlers[h].pc = "queued"
       /\ \A g \in 1..(h - 1) : handlers[g].pc # "queued"
       /\ handlers' = [handlers EXCEPT ![h].pc = "parsing"]
  /\ UNCHANGED <<inbox, parseLog, outbox, annVars, mergeVars, composeVars, buildVars,
               decodeVars, cellVars, readVars, loadVars>>

\* One turn of the loop of parseFileInputs in a handler.  Every await is taken
\* as a point where the handlers of other messages may run.
ParseFileInput ==
  /\ \E h \in 1..Len(inbox) :
       /\ handlers[h].pc = "parsing"
       /\ handlers[h].parsed < Len(inbox[h].files)
       /\ \E settled \in {parseFileInput(inbox[h].files[handlers[h].parsed + 1])} :
            /\ handlers' = [handlers EXCEPT ![h] = parseNext(@, settled)]
            /\ parseLog' = Append(parseLog,
                                  [handler |-> h, file |-> handlers[h].parsed + 1,
                                   reader |-> settled.reader, built |-> settled.built])
  /\ UNCHANGED <<inbox, outbox, annVars, mergeVars, composeVars, buildVars,
               decodeVars, cellVars, readVars, loadVars>>

\* The number of handlers that have started: the message received last.
latestReceived == Cardinality({h \in 1..Len(handlers) : handlers[h].pc # "queued"})

\* ctx.postMessage({ id, success: true, payload: datasets })
PostSuccess ==
  /\ \E h \in 1..Len(inbox) :
       /\ handlers[h].pc = "parsing"
       /\ handlers[h].parsed = Len(inbox[h].files)
       /\ outbox' = Append(outbox, [id |-> responseId(inbox, h, latestReceived),
                                    success |-> TRUE, payload |-> handlers[h].results])
       /\ handlers' = [handlers EXCEPT ![h].pc = "done"]
  /\ UNCHANGED <<inbox, parseLog, annVars, mergeVars, composeVars, buildVars,
               decodeVars, cellVars, readVars, loadVars>>

\* catch (error): ctx.postMessage({ id, success: false, error: message })
PostFailure ==
  /\ \E h \in 1..Len(inbox) :
       /\ handlers[h].pc = "failed"
       /\ outbox' = Append(outbox, [id |-> responseId(inbox, h, latestReceived),
                                    success |-> FALSE, error |-> handlers[h].error])
       /\ handlers' = [handlers EXCEPT ![h].pc = "done"]
  /\ UNCHANGED <<inbox, parseLog, annVars, mergeVars, composeVars, buildVars,
               decodeVars, cellVars, readVars, loadVars>>

\* The file lists of 1..n files of a set.
FileLists(fileSet, n) == UNION {[1..k -> fileSet] : k \in 1..n}

\* One request of 1..MaxRequestFiles files.
InitParse ==
  /\ \E fileList \in FileLists(ParseFiles, MaxRequestFiles) :
       inbox = <<[id |-> 1, files |-> fileList]>>
  /\ handlers = <<QueuedHandler>> /\ parseLog = <<>> /\ outbox = <<>>
  /\ AnnotateIdle /\ MergeIdle /\ ComposeIdle /\ BuildIdle
  /\ DecodeIdle /\ CellIdle /\ ReadIdle /\ LoadIdle

\* 1..MaxRequests requests, sent before the worker handles the first.
InitWorker ==
  /\ \E n \in 1..MaxRequests : \E lists \in [1..n -> WorkerFileLists] :
       /\ inbox = [h \in 1..n |-> [id |-> h, files |-> lists[h]]]
       /\ handlers = [h \in 1..n |-> QueuedHandler]
  /\ parseLog = <<>> /\ outbox = <<>>
  /\ AnnotateIdle /\ MergeIdle /\ ComposeIdle /\ BuildIdle
  /\ DecodeIdle /\ CellIdle /\ ReadIdle /\ LoadIdle

NextWorker == ReceiveMessage \/ ParseFileInput \/ PostSuccess \/ PostFailure
SpecParse == InitParse /\ [][NextWorker]_vars
SpecWorker == InitWorker /\ [][NextWorker]_vars

(***************************************************************************)
(* decodeCsvBuffer (dataParser.ts)                                         *)
(***************************************************************************)

\* U+FFFD, the character a non-fatal decoder puts for bytes it cannot decode.
ReplacementChar == "U+FFFD"

\* The texts a decoder may return.
DecodedTexts ==
  {<<>>, <<"a", ",", "1">>, <<"a", ReplacementChar, "1">>, <<ReplacementChar>>}

\* What a decoder makes of a buffer: None when it throws, else Some(text).
DecoderOutcomes == {None} \cup {Some(text) : text \in DecodedTexts}

\* A buffer, by what each of the three decoders makes of it: TextDecoder('utf-8'),
\* Encoding.detect followed by Encoding.convert, and TextDecoder('shift_jis').
CsvBuffers == [utf8 : DecoderOutcomes, detected : DecoderOutcomes,
               shiftJis : DecoderOutcomes]

\* try { text = decode(view) } catch {}: the text after a guarded decoding.
tryDecode(outcome, text) == IF outcome = None THEN text ELSE outcome[1]

needsLegacyDecodeAlways(text) == TRUE

\* !text || text.includes('\uFFFD')
needsLegacyDecode(text) == text = <<>> \/ Includes(text, ReplacementChar)

\* decodeCsvBuffer(buffer): the text returned and the decoders that were run,
\* in order; raised tells whether an exception left the function.
decodeCsvBuffer(buffer) ==
  LET utf8 == tryDecode(buffer.utf8, <<>>)
  IN IF needsLegacyDecode(utf8)
     THEN IF buffer.detected # None
          THEN [raised |-> FALSE, text |-> buffer.detected[1],
                ran |-> <<"utf-8", "detect">>]
          ELSE [raised |-> FALSE, text |-> tryDecode(buffer.shiftJis, utf8),
                ran |-> <<"utf-8", "detect", "shift_jis">>]
     ELSE [raised |-> FALSE, text |-> utf8, ran |-> <<"utf-8">>]

DecodeCsvBuffer ==
  /\ csvBuffer \in CsvBuffers /\ csvText = None
  /\ csvText' = Some(decodeCsvBuffer(csvBuffer))
  /\ UNCHANGED <<csvBuffer, annVars, mergeVars, composeVars, buildVars, workerVars,
                 cellVars, readVars, loadVars>>

InitDecode ==
  /\ csvBuffer \in CsvBuffers /\ csvText = None
  /\ AnnotateIdle /\ MergeIdle /\ ComposeIdle /\ BuildIdle /\ WorkerIdle /\ CellIdle
  /\ ReadIdle /\ LoadIdle

NextDecode == DecodeCsvBuffer
SpecDecode == InitDecode /\ [][NextDecode]_vars

(***************************************************************************)
(* String cells with and without a leading apostrophe                      *)
(***************************************************************************)

\* What may stand before the text of a cell: nothing, white space, an
\* apostrophe or a double quote, and white space on either side of an apostrophe.
CellPrefixes == {<<>>, <<" ">>, <<"'">>, <<"\"">>, <<" ", "'">>, <<"'", " ">>}

\* "08:30", "8:30:15", "08:30:15.5", "0830", "083015", "25:61", "99:00", "abc", ""
TimeBodies ==
  {<<"0", "8", ":", "3", "0">>, <<"8", ":", "3", "0", ":", "1", "5">>,
   <<"0", "8", ":", "3", "0", ":", "1", "5", ".", "5">>, <<"0", "8", "3", "0">>,
   <<"0", "8", "3", "0", "1", "5">>, <<"2", "5", ":", "6", "1">>,
   <<"9", "9", ":", "0", "0">>, <<"a", "b", "c">>, <<>>}

TimeTexts == {prefix \o body : prefix \in CellPrefixes, body \in TimeBodies}

\* "20250102", "20251302", "abc", "".  With an apostrophe before it none of
\* these is a date to the Date constructor, which dayjs(trimmed) falls back to
\* (a date with separators is one to some implementations of Date.parse).
DateBodies ==
  {<<"2", "0", "2", "5", "0", "1", "0", "2">>,
   <<"2", "0", "2", "5", "1", "3", "0", "2">>, <<"a", "b", "c">>, <<>>}

DateTexts ==
  {prefix \o body \o suffix :
     prefix \in {<<>>, <<" ">>, <<"'">>}, body \in DateBodies, suffix \in {<<>>, <<" ">>}}

\* "'" + s
Apostrophe(s) == <<"'">> \o s

\* parseTimeCell(s) and parseTimeCell("'" + s)
ParseTimeCell ==
  /\ cellAs = "time" /\ ~cellDone
  /\ parsedPlain' = parseTimeCell(TextCell(cellText))
  /\ parsedQuoted' = parseTimeCell(TextCell(Apostrophe(cellText)))
  /\ cellDone' = TRUE
  /\ UNCHANGED <<cellText, cellAs, annVars, mergeVars, composeVars, buildVars,
                 workerVars, decodeVars, readVars, loadVars>>

\* parseDateCell(s) and parseDateCell("'" + s)
ParseDateCell ==
  /\ cellAs = "date" /\ ~cellDone
  /\ parsedPlain' = parseDateCell(TextCell(cellText))
  /\ parsedQuoted' = parseDateCell(TextCell(Apostrophe(cellText)))
  /\ cellDone' = TRUE
  /\ UNCHANGED <<cellText, cellAs, annVars, mergeVars, composeVars, buildVars,
                 workerVars, decodeVars, readVars, loadVars>>

InitCell ==
  /\ \/ cellAs = "time" /\ cellText \in TimeTexts
     \/ cellAs = "date" /\ cellText \in DateTexts
  /\ parsedPlain = None /\ parsedQuoted = None /\ cellDone = FALSE
  /\ AnnotateIdle /\ MergeIdle /\ ComposeIdle /\ BuildIdle /\ WorkerIdle /\ DecodeIdle
  /\ ReadIdle /\ LoadIdle

NextCell == ParseTimeCell \/ ParseDateCell
SpecCell == InitCell /\ [][NextCell]_vars

(***************************************************************************)
(* Cells given to the time and to the date interpreter                     *)
(***************************************************************************)

\* The segments of a time with colons: hours "08", "8", "99", "100", "ab", "";
\* minutes "30", "59", "60", "x"; seconds "15", "15.5", "59.9996", "60".
HourSegments ==
  {<<"0", "8">>, <<"8">>, <<"9", "9">>, <<"1", "0", "0">>, <<"a", "b">>, <<>>}
MinuteSegments == {<<"3", "0">>, <<"5", "9">>, <<"6", "0">>, <<"x">>}
SecondSegments ==
  {<<"1", "5">>, <<"1", "5", ".", "5">>, <<"5", "9", ".", "9", "9", "9", "6">>,
   <<"6", "0">>}

ColonTexts ==
  {hour \o <<":">> \o minute : hour \in HourSegments, minute \in MinuteSegments}
    \cup {hour \o <<":">> \o minute \o <<":">> \o second :
            hour \in HourSegments, minute \in MinuteSegments, second \in SecondSegments}
    \cup {<<"1", ":", "2", ":", "3", ":", "4">>}

\* "235959", "0000", "0830", "246060", "2460", "12345", "1234567", "12a4"
CompactTexts ==
  {<<"2", "3", "5", "9", "5", "9">>, <<"0", "0", "0", "0">>, <<"0", "8", "3", "0">>,
   <<"2", "4", "6", "0", "6", "0">>, <<"2", "4", "6", "0">>, <<"1", "2", "3", "4", "5">>,
   <<"1", "2", "3", "4", "5", "6", "7">>, <<"1", "2", "a", "4">>}

\* Serials: 08:30, 08:30:00.9996, noon and a half second of 2025-01-02, the last
\* 0.00005 s of a day, and a negative number.  Native dates: 08:30 with and
\* without a day, and the last millisecond of a day.
TimeNumbers ==
  {SerialTime, NumberCell(0, 30600, 99960), NumberCell(45659, 43200, 50000),
   NumberCell(0, 86399, 99995), SerialDate, NegativeNumber}
TimeDates == {NativeTime, NativeDateTime, DateCell(DaysFromCivil(2025, 1, 2), 86399999)}

TimeCells ==
  {TextCell(text) : text \in ColonTexts \cup CompactTexts}
    \cup TimeNumbers \cup TimeDates \cup {AbsentCell}

\* Year, month and day strings: months "02", "2", "12", "13" and days "02", "29",
\* "31", "32" of 2025 and of the leap year 2024.
YearSegments == {<<"2", "0", "2", "5">>, <<"2", "0", "2", "4">>}
MonthSegments == {<<"0", "2">>, <<"2">>, <<"1", "2">>, <<"1", "3">>}
DaySegments == {<<"0", "2">>, <<"2", "9">>, <<"3", "1">>, <<"3", "2">>}

\* The separators of a date; the empty one is that of YYYYMMDD.
DateDelimiters == {<<"/">>, <<"-">>, <<".">>, <<>>}

DateCells ==
  {TextCell(year \o delimiter \o month \o delimiter \o day) :
     year \in YearSegments, month \in MonthSegments, day \in DaySegments,
     delimiter \in DateDelimiters}

\* parseTimeCell(readCell); for a string, parseTimeStringFast of the trimmed
\* string as well.
ReadTimeCell ==
  /\ readAs = "time" /\ ~readDone
  /\ readResult' = parseTimeCell(readCell)
  /\ readFast' = IF kindOf(readCell) = "text" THEN parseTimeStringFast(Trim(readCell[2]))
                 ELSE None
  /\ readDone' = TRUE
  /\ UNCHANGED <<readCell, readAs, annVars, mergeVars, composeVars, buildVars, workerVars,
                 decodeVars, cellVars, loadVars>>

\* parseDateCell(readCell); for a string, parseDateStringFast of the trimmed
\* string as well.
ReadDateCell ==
  /\ readAs = "date" /\ ~readDone
  /\ readResult' = parseDateCell(readCell)
  /\ readFast' = IF kindOf(readCell) = "text" THEN parseDateStringFast(Trim(readCell[2]))
                 ELSE None
  /\ readDone' = TRUE
  /\ UNCHANGED <<readCell, readAs, annVars, mergeVars, composeVars, buildVars, workerVars,
                 decodeVars, cellVars, loadVars>>

InitRead ==
  /\ \/ readAs = "time" /\ readCell \in TimeCells
     \/ readAs = "date" /\ readCell \in DateCells
  /\ readResult = None /\ readFast = None /\ readDone = FALSE
  /\ AnnotateIdle /\ MergeIdle /\ ComposeIdle /\ BuildIdle /\ WorkerIdle /\ DecodeIdle
  /\ CellIdle /\ LoadIdle

NextRead == ReadTimeCell \/ ReadDateCell
SpecRead == InitRead /\ [][NextRead]_vars

(***************************************************************************)
(* Loads of the page (App.tsx)                                             *)
(***************************************************************************)

\* handleFile from its invocation to its first await (or to its end):
\* slice(0, 2), `if (!files.length) return`, setIsLoading(true),
\* setErrorMessage(null), and the first turn of the loop.
Invoked(selection) ==
  /\ SelectedFiles(selection) # <<>>
  /\ \E entered \in
        {enterTurn([page EXCEPT !.isLoading = TRUE, !.errorMessage = None],
                   Load(SelectedFiles(selection),
                        Cardinality({k \in 1..Len(loads) : loads[k].pc = "awaiting"})),
                   1)} :
       /\ page' = entered[1]
       /\ loads' = Append(loads, entered[2])
  /\ UNCHANGED <<annVars, mergeVars, composeVars, buildVars, workerVars, decodeVars,
                 cellVars, readVars>>

\* A change event of the file input, which is disabled while isLoading.
InvokeHandleFile ==
  /\ ~page.isLoading
  /\ Len(loads) < MaxLoads
  /\ \E selection \in LoadSelections : Invoked(selection)

\* handleFile invoked while the input is disabled and an earlier invocation
\* awaits its parse.
InvokeHandleFileWhileLoading ==
  /\ page.isLoading
  /\ \E k \in 1..Len(loads) : loads[k].pc = "awaiting"
  /\ Len(loads) < MaxLoads
  /\ \E selection \in LoadSelections : Invoked(selection)

\* The parse an invocation awaits settles and the handler runs on to its next
\* await or to its end.
ResumeHandleFile ==
  \E k \in 1..Len(loads) :
    /\ loads[k].pc = "awaiting"
    /\ \E resumed \in {resumeTurn(page, loads[k],
                                  builtRows[loads[k].files[loads[k].awaiting]])} :
         /\ page' = resumed[1]
         /\ loads' = [loads EXCEPT ![k] = resumed[2]]
    /\ UNCHANGED <<annVars, mergeVars, composeVars, buildVars, workerVars, decodeVars,
                   cellVars, readVars>>

InitLoad ==
  /\ page = InitialPage /\ loads = <<>>
  /\ AnnotateIdle /\ MergeIdle /\ ComposeIdle /\ BuildIdle /\ WorkerIdle /\ DecodeIdle
  /\ CellIdle /\ ReadIdle

\* The page as it runs: the input takes no file while a load is in flight.
NextLoad == InvokeHandleFile \/ ResumeHandleFile
SpecLoad == InitLoad /\ [][NextLoad]_vars

\* handleFile as a function that anything may invoke at any time.
NextReenter == InvokeHandleFile \/ InvokeHandleFileWhileLoading \/ ResumeHandleFile
SpecReenter == InitLoad /\ [][NextReenter]_vars

(***************************************************************************)
(* Properties of the merge (SpecMerge) and of the annotation (SpecAnnotate) *)
(***************************************************************************)

StrictlyAscending(seq) == \A i \in 1..(Len(seq) - 1) : seq[i] < seq[i + 1]

HasDuplicates(seq) == \E i, j \in 1..Len(seq) : i < j /\ seq[i] = seq[j]
Unordered(seq) == \E i, j \in 1..Len(seq) : i < j /\ seq[i] > seq[j]

\* C2, as stated: after a load of one file or of several, the timestamps of the
\* merged dataset are strictly ascending (so no two are equal).
C2_TimestampsStrictlyAscending_AnyLoad ==
  loadDone => StrictlyAscending(parsedData.timestamps)

\* C2, amended: after a load of two or more files, the timestamps of the merged
\* dataset are strictly ascending, whatever the order and the duplicates of the
\* files' own timestamps.
C2_TimestampsStrictlyAscending_SeveralFiles ==
  (loadDone /\ Len(files) >= 2) => StrictlyAscending(parsedData.timestamps)

C2_Witness ==
  /\ loadDone /\ Len(files) >= 2
  /\ HasDuplicates(files[1].data.timestamps)
  /\ Unordered(files[2].data.timestamps)

\* C3: after a load of two or more files, every merged series is as long as the
\* unified timeline, and it is the series of one file, under the key of that
\* file's label and column: at each position whose timestamp occurs in that file
\* it holds the file's value in a row with that timestamp, and null elsewhere.
C3_MergedSeriesAlignedToTimeline ==
  (loadDone /\ Len(files) >= 2) =>
    \A k \in DOMAIN parsedData.series :
      /\ Len(parsedData.series[k]) = Len(parsedData.timestamps)
      /\ \E f \in 1..Len(files) : \E nm \in DOMAIN files[f].data.series :
           /\ k = <<"[">> \o loadedFiles[f].label \o <<"]", " ">> \o nm
           /\ \A i \in 1..Len(parsedData.timestamps) :
                LET own == files[f].data.timestamps
                    rows == {r \in 1..Len(own) : own[r] = parsedData.timestamps[i]}
                IN IF rows = {} THEN parsedData.series[k][i] = Null
                   ELSE \E r \in rows :
                          parsedData.series[k][i] = files[f].data.series[nm][r]

\* Scenario B: file1 [t0,t1] X=[1,2], file2 [t1,t2] X=[3,4].
C3_Witness ==
  /\ loadDone /\ Len(files) = 2
  /\ files[1].data.timestamps = <<1, 2>> /\ files[2].data.timestamps = <<2, 3>>
  /\ files[1].fileName = NameACsv /\ files[2].fileName = NameACsv
  /\ parsedData.timestamps = <<1, 2, 3>>
  /\ parsedData.series[<<"[">> \o NameACsv \o <<"]", " ">> \o ColX]
       = <<Num(111), Num(112), Null>>
  /\ parsedData.series[<<"[">> \o StrA \o <<".", "c", "s", "v", " ", "(", "2", ")", "]", " ">> \o ColX]
       = <<Null, Num(211), Num(212)>>

\* The (file, column) pairs of the selected files.
FileSeriesPairs ==
  UNION { { <<f, nm>> : nm \in DOMAIN files[f].data.series } : f \in 1..Len(files) }

\* C4: after a load of two or more files, the merged series map has exactly one
\* entry per (file, column) pair, keyed "[<file label>] <column label>": as many
\* entries as pairs, so that no series is lost or overwritten.
C4_OneEntryPerFileSeries ==
  (loadDone /\ Len(files) >= 2) =>
    /\ DOMAIN parsedData.series =
         { <<"[">> \o loadedFiles[p[1]].label \o <<"]", " ">> \o p[2] : p \in FileSeriesPairs }
    /\ Cardinality(DOMAIN parsedData.series) = Cardinality(FileSeriesPairs)

\* C5: a load of exactly one file yields that file's dataset unchanged: the same
\* timestamps in the same order and the same series under their own names.
C5_SingleFileUnchanged ==
  (loadDone /\ Len(files) = 1) => parsedData = files[1].data

C5_Witness ==
  /\ loadDone /\ Len(files) = 1
  /\ files[1].data.timestamps = <<2, 1>>
  /\ DOMAIN parsedData.series = {ColX, ColBCsvX}

\* The key of a column of a selected file in the merged dataset.
MergedKey(f, nm) == <<"[">> \o loadedFiles[f].label \o <<"]", " ">> \o nm

\* The file and column whose series is under their key in the merged dataset:
\* no later file writes the same key.
WritesLast(f, nm) ==
  \A g \in (f + 1)..Len(files) : \A other \in DOMAIN files[g].data.series :
    MergedKey(g, other) # MergedKey(f, nm)

\* The rows of a file with the timestamp of a position of the timeline.
RowsAt(f, i) ==
  {r \in 1..Len(files[f].data.timestamps) :
     files[f].data.timestamps[r] = parsedData.timestamps[i]}

LastOf(rows) == CHOOSE r \in rows : \A q \in rows : q <= r

\* C28: when a file merged with others has several rows with one timestamp, its
\* merged series hold at that position of the timeline the value (or null) of
\* the last of these rows, and the values of the earlier ones are nowhere in the
\* merged dataset.
C28_LastRowOfTimestampWins ==
  (loadDone /\ Len(files) >= 2) =>
    \A f \in 1..Len(files) : \A nm \in DOMAIN files[f].data.series :
      \A i \in 1..Len(parsedData.timestamps) :
        (WritesLast(f, nm) /\ RowsAt(f, i) # {}) =>
          /\ parsedData.series[MergedKey(f, nm)][i]
               = files[f].data.series[nm][LastOf(RowsAt(f, i))]
          /\ \A r \in RowsAt(f, i) \ {LastOf(RowsAt(f, i))} :
               \A k \in DOMAIN parsedData.series : \A j \in 1..Len(parsedData.series[k]) :
                 files[f].data.series[nm][r] # Null
                   => parsedData.series[k][j] # files[f].data.series[nm][r]

\* The first file has two rows with the timestamp 2: its series hold the value
\* of the second row there.
C28_Witness ==
  /\ loadDone /\ Len(files) = 2
  /\ files[1].data.timestamps = <<2, 2>> /\ files[2].data.timestamps = <<1>>
  /\ files[1].fileName = NameACsv /\ files[2].fileName = NameACsv
  /\ parsedData.timestamps = <<1, 2>>
  /\ parsedData.series[<<"[">> \o NameACsv \o <<"]", " ">> \o ColX] = <<Null, Num(112)>>

\* The display label of the i-th dataset passed to annotateDatasetLabels.
DisplayLabel(i) ==
  IF annIn[i].label # <<>> THEN annIn[i].label
  ELSE IF annIn[i].fileName # <<>> THEN annIn[i].fileName
  ELSE <<"l", "o", "g">> \o NumToStr(i)

\* How many of the first i datasets have the display label of the i-th.
Occurrence(i) == Cardinality({j \in 1..i : DisplayLabel(j) = DisplayLabel(i)})

\* C6: annotateDatasetLabels returns the datasets in their order with their data
\* and file names; the first dataset with a display label L is labelled L and
\* the k-th one (k >= 2) is labelled "L (k)".
C6_LabelsAnnotatedWithCounter ==
  annDone =>
    /\ Len(annOut) = Len(annIn)
    /\ \A i \in 1..Len(annIn) :
         /\ annOut[i].data = annIn[i].data
         /\ annOut[i].fileName = annIn[i].fileName
         /\ annOut[i].label =
              IF Occurrence(i) = 1 THEN DisplayLabel(i)
              ELSE DisplayLabel(i) \o <<" ", "(">> \o NumToStr(Occurrence(i)) \o <<")">>

C6_Witness ==
  /\ annDone /\ Len(annIn) = 3
  /\ annIn[1].label = StrA /\ annIn[2].label = <<>> /\ annIn[3].label = StrA
  /\ annOut[1].label = StrA
  /\ annOut[2].label = <<"a", " ", "(", "2", ")">>
  /\ annOut[3].label = <<"a", " ", "(", "3", ")">>

\* C27: the labels of the files annotateDatasetLabels returns are pairwise
\* distinct, whatever the number of files and their labels.
C27_AnnotatedLabelsDistinct ==
  annDone => \A i, j \in 1..Len(annOut) : i # j => annOut[i].label # annOut[j].label

\* The same for inputs none of whose display labels has the annotated form of
\* another's: "L (k)" beside k files of display label L.
NoAnnotatedForm ==
  \A i, j \in 1..Len(annIn) :
    \A k \in 2..Len(annIn) :
      baseLabel(annIn[i], i) # annotatedLabel(baseLabel(annIn[j], j), k)

AnnotatedLabelsDistinctWithoutAnnotatedForm ==
  (annDone /\ NoAnnotatedForm)
    => \A i, j \in 1..Len(annOut) : i # j => annOut[i].label # annOut[j].label

(***************************************************************************)
(* Properties of the timestamp composer (SpecCompose)                      *)
(***************************************************************************)

\* C9: for a cell d that holds a date and a cell t that holds a time, of any
\* cell type, composeTimestamp(d, t) and composeTimestamp(t, d) are the same
\* instant.
C9_ComposeColumnOrderTolerant ==
  (composePc = "both" /\ rowCell0 \in DateOnlyCells /\ rowCell1 \in TimeOnlyCells)
    => composed = composedSwapped

\* C10, as stated: when the date cell yields a date and the time cell yields no
\* time, the row has a timestamp and it is that date at 00:00:00.000.
C10_UnparseableTimeGivesMidnight ==
  (composePc # "row" /\ parseDateCell(rowCell0) # None
     /\ parseTimeCell(rowCell1) = None)
    => composed = Some([day |-> parseDateCell(rowCell0)[1].day, ms |-> 0])

\* The milliseconds of a time of day.
millisOf(timeParts) ==
  Trunc(timeParts.hour) * 3600000 + Trunc(timeParts.minute) * 60000
    + Trunc(timeParts.second) * 1000 + Trunc(timeParts.millisecond)

\* C10, amended: when the date cell yields a date and the time cell yields no
\* time, the row has a timestamp: that date at the time of day the time
\* interpreter reads from the date cell itself, and at 00:00:00.000 when it
\* reads none there either.
C10_UnparseableTimeGivesOwnTimeOrMidnight ==
  (composePc # "row" /\ parseDateCell(rowCell0) # None
     /\ parseTimeCell(rowCell1) = None)
    => LET own == parseTimeCell(rowCell0)
           t == IF own = None THEN 0 ELSE millisOf(own[1])
       IN composed = Some([day |-> parseDateCell(rowCell0)[1].day + (t \div MsPerDay),
                           ms |-> t % MsPerDay])

C10_Witness ==
  /\ composePc = "composed"
  /\ rowCell0 = SerialDateNoon /\ rowCell1 = TextWord
  /\ composed = Some([day |-> DaysFromCivil(2025, 1, 2), ms |-> 43200000])

(***************************************************************************)
(* Properties of the dataset builders (SpecBuild)                          *)
(***************************************************************************)

\* The positions in the grid of the grid sanitizeRows keeps, in order.
RECURSIVE meaningfulPositions(_, _)
meaningfulPositions(g, i) ==
  IF i > Len(g) THEN <<>>
  ELSE (IF isMeaningfulRow(g[i]) THEN <<i>> ELSE <<>>) \o meaningfulPositions(g, i + 1)

\* The position in the grid of the header row of a result, and of the rows that
\* gave its timestamps.
headerPosition(result) == meaningfulPositions(grid, 1)[result.headerIndex]
keptPositions(result) ==
  {meaningfulPositions(grid, 1)[result.headerIndex + result.rowsKept[k]] :
     k \in 1..Len(result.rowsKept)}

\* The cells of a row whose trimmed string form is non-empty.
NonEmptyCells(row) == {c \in 1..Len(row) : Trim(cellToString(row[c])) # <<>>}

\* The rows of the grid with at least 3 non-empty cells.
QualifyingPositions == {i \in 1..Len(grid) : Cardinality(NonEmptyCells(grid[i])) >= 3}

FirstQualifying == CHOOSE i \in QualifyingPositions : \A j \in QualifyingPositions : i <= j

\* C1: in every dataset buildParsedData returns, every series has as many
\* entries as there are timestamps.
C1_SeriesLengthEqualsTimestamps ==
  built.status = "ok"
    => \A label \in DOMAIN built.series : Len(built.series[label]) = Len(built.timestamps)

\* The header rule, for the result of one builder.
HeaderRule(result) ==
  result.status # "pending"
    => IF QualifyingPositions = {} THEN result.status = "HeaderNotFound"
       ELSE /\ result.status # "HeaderNotFound"
            /\ headerPosition(result) = FirstQualifying
            /\ \A i \in keptPositions(result) : i > FirstQualifying

\* C7: the header row a dataset builder chooses is the first row with at least
\* 3 non-empty trimmed cells; the grid above it give no timestamp and no
\* series value; without such a row the build fails with HeaderNotFound.
C7_HeaderIsFirstRowWithThreeNonEmptyCells == HeaderRule(built) /\ HeaderRule(builtApp)

\* A banner row (a meaningful row with fewer than 3 non-empty cells) stands
\* above the first row with at least 3 non-empty cells, which has 4 of them.
BannerAboveHeader ==
  /\ QualifyingPositions # {}
  /\ Cardinality(NonEmptyCells(grid[FirstQualifying])) = 4
  /\ \E b \in 1..(FirstQualifying - 1) : NonEmptyCells(grid[b]) # {}

\* C8: when a banner row precedes the true header row, a row with 4 non-empty
\* cells, the builder of dataParser.ts selects the true header row and never
\* the banner row.
C8_BannerRowSkipped ==
  (built.status # "pending" /\ BannerAboveHeader)
    => /\ built.status \notin {"HeaderNotFound", "InvalidHeader"}
       /\ headerPosition(built) = FirstQualifying
       /\ \A b \in 1..(FirstQualifying - 1) : b \notin keptPositions(built) \cup {headerPosition(built)}

C8_Witness ==
  /\ grid = <<PaddedBannerRow, HeaderRow, DataRow>>
  /\ built.status = "ok" /\ built.headerIndex = 2 /\ Len(built.timestamps) = 1

\* A date with its time of day replaced by t milliseconds.
AtTime(date, t) == [day |-> date.day + (t \div MsPerDay), ms |-> t % MsPerDay]

\* The decision order of composeTimestamp on the cells of the row, where alone
\* is what a secondary date becomes when the primary cell has no time.
DecisionOrder(alone) ==
  LET primaryDate == parseDateCell(rowCell0)
      secondaryDate == parseDateCell(rowCell1)
      primaryTime == parseTimeCell(rowCell0)
      secondaryTime == parseTimeCell(rowCell1)
  IN IF primaryDate # None
     THEN Some(AtTime(primaryDate[1],
                      IF secondaryTime # None THEN millisOf(secondaryTime[1])
                      ELSE IF primaryTime # None THEN millisOf(primaryTime[1])
                      ELSE 0))
     ELSE IF secondaryDate # None
     THEN Some(IF primaryTime # None THEN AtTime(secondaryDate[1], millisOf(primaryTime[1]))
               ELSE IF alone = "midnight" THEN AtTime(secondaryDate[1], 0)
               ELSE secondaryDate[1])
     ELSE None

\* C22, as stated: composeTimestamp(primary, secondary) is (1) when primary
\* yields a date, that date at the secondary cell's time, else at the time read
\* from the primary cell itself, else at midnight; (2) otherwise, when secondary
\* yields a date, that date at the primary cell's time, else at midnight; (3)
\* otherwise none.
C22_ComposeDecisionOrder_MidnightAlone ==
  composePc # "row" => composed = DecisionOrder("midnight")

\* C22, amended: as above, but in (2) a secondary date whose primary cell has
\* no time is returned as interpreted, with the time of day it carries.
C22_ComposeDecisionOrder_DateAsRead ==
  composePc # "row" => composed = DecisionOrder("as read")

\* A word before a native date with a time of day: the date is returned with
\* its 08:30.
C22_Witness ==
  /\ composePc # "row"
  /\ rowCell0 = TextWord /\ rowCell1 = NativeDateTime
  /\ composed = Some([day |-> DaysFromCivil(2025, 1, 2), ms |-> 30600000])

\* C11: a row whose date cell (column 0) is not interpretable as a date gives no
\* timestamp and no series value to the dataset buildParsedData returns, whatever
\* its time cell (column 1) holds.
C11_UndatedRowDropped ==
  built.status = "ok"
    => \A i \in keptPositions(built) : parseDateCell(cellAt(grid[i], 1)) # None

\* The timestamp of the row at a position of the grid, None without one.
RowTimestamp(i) == composeTimestamp(cellAt(grid[i], 1), cellAt(grid[i], 2))

\* The positions after the first row with at least 3 non-empty cells of the
\* rows that have a timestamp, in order.
RECURSIVE datedPositionsFrom(_)
datedPositionsFrom(i) ==
  IF i > Len(grid) THEN <<>>
  ELSE (IF isMeaningfulRow(grid[i]) /\ RowTimestamp(i) # None THEN <<i>> ELSE <<>>)
         \o datedPositionsFrom(i + 1)

DatedPositions ==
  IF QualifyingPositions = {} THEN <<>> ELSE datedPositionsFrom(FirstQualifying + 1)

\* C16: buildParsedData fails with NoValidTimestamps exactly when the grid has a
\* header row and no row after it has a timestamp, and a dataset it returns
\* has at least one timestamp.
C16_NoValidTimestampsExactlyWithoutDatedRow ==
  built.status # "pending"
    => /\ (built.status = "NoValidTimestamps")
            <=> (QualifyingPositions # {} /\ DatedPositions = <<>>)
       /\ built.status = "ok" => Len(built.timestamps) >= 1

\* A header row, and after it one row, which has no date.
C16_Witness ==
  /\ grid = <<BannerRow, HeaderRow, UndatedRow>>
  /\ built.status = "NoValidTimestamps" /\ built.headerIndex = 2

\* A cell that is absent, empty or not a finite number.
IsGap(cell) ==
  \/ kindOf(cell) = "absent"
  \/ /\ kindOf(cell) = "text"
     /\ (Trim(cell[2]) = <<>> \/ ~isFinite(StrToNumber(Trim(cell[2]))))

\* The entries that the rows at the positions from the k-th on give to the
\* series with a label: one for each column of the header with that label.
RECURSIVE entriesFrom(_, _, _, _)
entriesFrom(positions, k, keys, label) ==
  IF k > Len(positions) THEN <<>>
  ELSE [c \in 1..Cardinality({d \in 1..Len(keys) : keys[d] = label}) |->
          LET column == CHOOSE d \in 1..Len(keys) :
                          /\ keys[d] = label
                          /\ Cardinality({e \in 1..d : keys[e] = label}) = c
              cell == cellAt(grid[positions[k]], column + 2)
          IN IF IsGap(cell) THEN Null ELSE toNumeric(cell)]
         \o entriesFrom(positions, k + 1, keys, label)

\* C17: when a row after the header has a timestamp, buildParsedData returns a
\* dataset; its timestamps are those of the rows after the header that have
\* one, in row order; a row without one gives nothing; and every cell of a
\* data column of a row with one gives one entry to the series of its column,
\* null when the cell is absent, empty or not a finite number.
C17_RowFailuresDegradeGracefully ==
  (built.status # "pending" /\ DatedPositions # <<>>)
    => /\ built.status = "ok"
       /\ built.timestamps = [k \in 1..Len(DatedPositions) |-> RowTimestamp(DatedPositions[k])[1]]
       /\ \A label \in DOMAIN built.series :
            built.series[label] = entriesFrom(DatedPositions, 1, built.keys, label)

\* Rows with and without a date; cells that are empty, a word and absent.
C17_Witness ==
  /\ grid = <<HeaderRow, LongRow, UndatedRow>>
  /\ built.status = "ok" /\ Len(built.timestamps) = 1
  /\ built.series[<<"A">>] = <<Null>> /\ built.series[<<"B">>] = <<Null>>

\* The coerced cells of column c (counted from 1) of the rows that have a
\* timestamp, in row order.
ColumnValues(c) ==
  [k \in 1..Len(DatedPositions) |-> toNumeric(cellAt(grid[DatedPositions[k]], c))]

\* The labels of the data columns of a header are pairwise distinct, generated
\* labels included.
DistinctLabels(keys) == \A c, d \in 1..Len(keys) : c # d => keys[c] # keys[d]

\* The column rule for a header row: one series for each column from the third
\* on, holding the coerced cells of that column, and a generated label where the
\* trimmed header cell is empty.
ColumnRule(header) ==
  /\ Cardinality(DOMAIN built.series) = Len(header) - 2
  /\ Len(built.keys) = Len(header) - 2
  /\ \A c \in 3..Len(header) :
       /\ built.series[built.keys[c - 2]] = ColumnValues(c)
       /\ Trim(cellToString(header[c])) = <<>>
            => built.keys[c - 2] = DataPrefix \o NumToStr(c - 2)

\* C21: a dataset built from a header of width w has exactly w - 2 series, the
\* series of the column at index c >= 2 holds the coerced cells of that column,
\* and an empty trimmed header cell gets a generated label and keeps its column.
C21_EveryDataColumnHasItsSeries ==
  built.status = "ok" => ColumnRule(grid[headerPosition(built)])

\* The same for headers whose labels are pairwise distinct: the series are
\* keyed by label, so only columns of one label share a series.
ColumnRuleForDistinctLabels ==
  (built.status = "ok" /\ DistinctLabels(built.keys))
    => ColumnRule(grid[headerPosition(built)])

\* C26: buildParsedData fails with InvalidHeader whenever the header row it has
\* selected has fewer than 3 columns, and a dataset it returns comes from a
\* header row of at least 3 columns: date, time and at least one data column,
\* which gives it at least one series.
C26_InvalidHeaderBelowThreeColumns ==
  (built.status \notin {"pending", "HeaderNotFound"})
    => /\ Len(grid[headerPosition(built)]) < 3 => built.status = "InvalidHeader"
       /\ built.status = "ok"
            => /\ Len(grid[headerPosition(built)]) >= 3
               /\ Len(built.keys) >= 1
               /\ DOMAIN built.series # {}

\* A dataset from a header row of exactly 3 columns: it has one series.
C26_Witness ==
  /\ grid = <<ShortRow, DataRow>>
  /\ built.status = "ok" /\ built.headerIndex = 1
  /\ Len(built.keys) = 1 /\ Len(built.timestamps) = 1

\* The header row selected has at least 3 non-empty cells, so the test for
\* fewer than 3 columns never fails a build.
InvalidHeaderNeverRaised == built.status # "InvalidHeader"

(***************************************************************************)
(* Properties of the file pipeline (SpecParse) and of the worker           *)
(* (SpecWorker)                                                            *)
(***************************************************************************)

\* The files of a list that parseFileInput rejects, and the first of them.
FailingFiles(fileList) == {i \in 1..Len(fileList) : ~parseFileInput(fileList[i]).ok}
FirstFailing(fileList) ==
  CHOOSE i \in FailingFiles(fileList) : \A j \in FailingFiles(fileList) : i <= j

\* The files a handler has called parseFileInput on, in the order of the calls.
RECURSIVE filesParsedBy(_, _)
filesParsedBy(h, k) ==
  IF k > Len(parseLog) THEN <<>>
  ELSE (IF parseLog[k].handler = h THEN <<parseLog[k].file>> ELSE <<>>)
         \o filesParsedBy(h, k + 1)

\* The responses posted with the id of a request.
ResponsesTo(h) == {r \in 1..Len(outbox) : outbox[r].id = inbox[h].id}

\* C12: parseFileInputs parses the files one after another in array order and
\* stops at the first file with a fatal error; then the call fails with that
\* file's error and gives no dataset, and no later file is parsed; without a
\* failing file the result is the dataset of every file, in input order.
C12_ParseFileInputsAllOrNothing ==
  \A h \in 1..Len(inbox) :
    LET fileList == inbox[h].files
        calls == filesParsedBy(h, 1)
    IN /\ \A k \in 1..Len(calls) : calls[k] = k
       /\ \A k \in 1..Len(calls) : \A i \in FailingFiles(fileList) : k <= i
       /\ handlers[h].pc = "done" =>
            /\ Len(calls) = IF FailingFiles(fileList) = {} THEN Len(fileList)
                            ELSE FirstFailing(fileList)
            /\ \E r \in ResponsesTo(h) :
                 IF FailingFiles(fileList) = {}
                 THEN /\ outbox[r].success
                      /\ outbox[r].payload =
                           [i \in 1..Len(fileList) |-> parseFileInput(fileList[i]).dataset]
                 ELSE /\ ~outbox[r].success
                      /\ DOMAIN outbox[r] = {"id", "success", "error"}
                      /\ outbox[r].error = parseFileInput(fileList[FirstFailing(fileList)]).error

\* A file that parses, a file that fails, and a file that is never parsed.
C12_Witness ==
  /\ Len(inbox) = 1 /\ inbox[1].files = <<GoodCsv, NoHeaderXls, TypedXlsx>>
  /\ handlers[1].pc = "done" /\ Len(parseLog) = 2
  /\ Len(outbox) = 1 /\ ~outbox[1].success

\* The file a failed handler stopped at.
FailedFile(h) == inbox[h].files[handlers[h].parsed + 1]

\* C13: the error message of every failure response holds the name of the file
\* that caused the failure.
C13_ErrorMessageNamesFile ==
  \A h \in 1..Len(inbox) : \A r \in ResponsesTo(h) :
    ~outbox[r].success => FailedFile(h).name \in Range(outbox[r].error.embedded)

\* The entries of the log with the file each is about.
LoggedFile(k) == inbox[parseLog[k].handler].files[parseLog[k].file]

\* Nothing but the unsupported-format error naming the file came of call k.
RejectedUnsupported(k) ==
  /\ parseLog[k].reader = "none" /\ ~parseLog[k].built
  /\ handlers[parseLog[k].handler].error =
       ErrorMessage("UnsupportedFormat", <<LoggedFile(k).name>>)

\* C14, as stated: a file with the extension csv goes to the delimited reader,
\* one with xlsx or xls to the spreadsheet reader, and one with any other
\* extension fails with the unsupported-format error naming it, no reader and
\* no builder having run.
C14_ExtensionDrivesDispatch ==
  \A k \in 1..Len(parseLog) :
    LET ext == extensionOf(LoggedFile(k).name)
    IN IF ext = ExtCsv THEN parseLog[k].reader = "delimited"
       ELSE IF ext \in {ExtXlsx, ExtXls} THEN parseLog[k].reader = "spreadsheet"
       ELSE RejectedUnsupported(k)

\* C14, amended: as stated for the extensions csv, xlsx and xls; a file with
\* another extension goes to the delimited reader when its content type
\* contains "csv", else to the spreadsheet reader when it contains
\* "spreadsheetml", and fails as stated when it contains neither.
C14_ExtensionThenContentTypeDrivesDispatch ==
  \A k \in 1..Len(parseLog) :
    LET ext == extensionOf(LoggedFile(k).name)
        type == LoggedFile(k).type
    IN IF ext = ExtCsv THEN parseLog[k].reader = "delimited"
       ELSE IF ext \in {ExtXlsx, ExtXls} THEN parseLog[k].reader = "spreadsheet"
       ELSE IF IncludesText(type, ExtCsv) THEN parseLog[k].reader = "delimited"
       ELSE IF IncludesText(type, TypeSpreadsheetml) THEN parseLog[k].reader = "spreadsheet"
       ELSE RejectedUnsupported(k)

C14_Witness ==
  /\ inbox[1].files = <<CsvTypedTxt, SheetTypedFile, UntypedTxt>>
  /\ Len(parseLog) = 3
  /\ parseLog[1].reader = "delimited" /\ parseLog[2].reader = "spreadsheet"
  /\ parseLog[3].reader = "none" /\ handlers[1].pc = "failed"

\* C15: every response carries the id of a request; a request has one response
\* once its handler is through and none before; a success response carries the
\* datasets of the files of its own request, all of them, in order, and a
\* failure response the error of the first of its own files that fails.
C15_OneResponsePerRequest ==
  /\ \A r \in 1..Len(outbox) : \E h \in 1..Len(inbox) : outbox[r].id = inbox[h].id
  /\ \A h \in 1..Len(inbox) :
       /\ Cardinality(ResponsesTo(h)) = IF handlers[h].pc = "done" THEN 1 ELSE 0
       /\ \A r \in ResponsesTo(h) :
            IF outbox[r].success
            THEN /\ FailingFiles(inbox[h].files) = {}
                 /\ Len(outbox[r].payload) = Len(inbox[h].files)
                 /\ \A i \in 1..Len(inbox[h].files) :
                      /\ outbox[r].payload[i].fileName = inbox[h].files[i].name
                      /\ outbox[r].payload[i].data.timestamps
                           = buildParsedData(inbox[h].files[i].rows).timestamps
                      /\ outbox[r].payload[i].data.series
                           = buildParsedData(inbox[h].files[i].rows).series
            ELSE /\ FailingFiles(inbox[h].files) # {}
                 /\ outbox[r].error.text # ""

\* Two requests in flight, the second answered before the first.
C15_Witness ==
  /\ Len(inbox) = 2
  /\ inbox[1].files = <<GoodCsv, NoHeaderXls>> /\ inbox[2].files = <<GoodCsv>>
  /\ handlers[1].pc = "done" /\ handlers[2].pc = "done"
  /\ Len(outbox) = 2
  /\ outbox[1].id = 2 /\ outbox[1].success
  /\ outbox[2].id = 1 /\ ~outbox[2].success

(***************************************************************************)
(* Properties of decodeCsvBuffer (SpecDecode)                              *)
(***************************************************************************)

\* The text of the UTF-8 step: '' when the decoder throws.
Utf8Text == IF csvBuffer.utf8 = None THEN <<>> ELSE csvBuffer.utf8[1]

HasReplacementChar(text) == \E i \in 1..Len(text) : text[i] = ReplacementChar

Ran(step) == \E i \in 1..Len(csvText[1].ran) : csvText[1].ran[i] = step

\* C18: whichever of its three decoding steps succeed or throw, decodeCsvBuffer
\* raises nothing and returns a string; the autodetect step runs only when the
\* UTF-8 text is empty or holds U+FFFD, and the Shift-JIS step runs only when
\* the autodetect step has run and thrown.
C18_DecodeNeverRaisesAndFallsBackInOrder ==
  csvText # None =>
    /\ ~csvText[1].raised
    /\ csvText[1].text \in DecodedTexts
    /\ Ran("detect") => (Utf8Text = <<>> \/ HasReplacementChar(Utf8Text))
    /\ Ran("shift_jis") => (Ran("detect") /\ csvBuffer.detected = None)

\* All three steps have run and the last two have thrown: the UTF-8 text, with
\* its replacement character, is what is returned.
C18_Witness ==
  /\ csvText # None
  /\ HasReplacementChar(Utf8Text)
  /\ csvBuffer.detected = None /\ csvBuffer.shiftJis = None
  /\ Ran("detect") /\ Ran("shift_jis")
  /\ csvText[1].text = Utf8Text

(***************************************************************************)
(* Properties of the cell interpreters on quoted strings (SpecCell)        *)
(***************************************************************************)

\* C19: for every string s, parseTimeCell("'" + s) returns what
\* parseTimeCell(s) returns.
C19_ApostropheIgnoredByTimeCell ==
  (cellDone /\ cellAs = "time") => parsedQuoted = parsedPlain

\* s has a quote character right after leading white space.
QuoteAfterLeadingSpace(s) ==
  /\ s # <<>> /\ IsSpace(Head(s))
  /\ TrimStart(s) # <<>> /\ Head(TrimStart(s)) \in QuoteChars

\* Short of such strings the apostrophe makes no difference: parseTimeCell trims
\* before it strips the quotes, so a quote after leading white space is
\* stripped from s but is left in "'" + s.
ApostropheIgnoredWithoutHiddenQuote ==
  (cellDone /\ cellAs = "time" /\ ~QuoteAfterLeadingSpace(cellText))
    => parsedQuoted = parsedPlain

\* C20: for every string s that parses as a date, parseDateCell("'" + s)
\* returns the date parseDateCell(s) returns.
C20_ApostropheIgnoredByDateCell ==
  (cellDone /\ cellAs = "date" /\ parsedPlain # None) => parsedQuoted = parsedPlain

(***************************************************************************)
(* Properties of the interpreters (SpecRead)                               *)
(***************************************************************************)

\* v is a finite number from lo to hi.
Within(v, lo, hi) == isFinite(v) /\ ~DecLess(v, lo) /\ ~DecGreater(v, hi)

\* C23: a time of day the time interpreter returns, for a cell of any kind, has
\* its hour in 0..99, its minute and second in 0..59 and its millisecond in
\* 0..999.
C23_TimeOfDayWithinRanges ==
  (readDone /\ readAs = "time" /\ readResult # None)
    => /\ Within(readResult[1].hour, 0, 99)
       /\ Within(readResult[1].minute, 0, 59)
       /\ Within(readResult[1].second, 0, 59)
       /\ Within(readResult[1].millisecond, 0, 999)

\* The same for string cells and native dates, whose candidates are validated
\* (createTimeParts) or come from the getters of a Date.
TimeOfDayWithinRangesUnlessSerial ==
  (readDone /\ readAs = "time" /\ readResult # None /\ kindOf(readCell) # "number")
    => /\ Within(readResult[1].hour, 0, 99)
       /\ Within(readResult[1].minute, 0, 59)
       /\ Within(readResult[1].second, 0, 59)
       /\ Within(readResult[1].millisecond, 0, 999)

\* A time of day of whole hours, minutes, seconds and milliseconds.
TimeOfDay(h, m, sec, ms) == Some(TimeParts(DecInt(h), DecInt(m), DecInt(sec), DecInt(ms)))

\* A seconds segment: digits, or digits, a point and digits.
IsSeconds(segment) ==
  /\ Len(Split(segment, ".")) <= 2
  /\ Split(segment, ".")[1] # <<>>
  /\ \A k \in 1..Len(Split(segment, ".")) : AllDigits(Split(segment, ".")[k])

WholeSeconds(segment) == DigitsValue(Split(segment, ".")[1])

\* The fraction of a seconds segment in milliseconds, rounded and capped.
Milliseconds(segment) ==
  LET fraction == IF Len(Split(segment, ".")) = 2 THEN Split(segment, ".")[2] ELSE <<>>
      rounded == (2000 * DigitsValue(fraction) + Pow10(Len(fraction)))
                   \div (2 * Pow10(Len(fraction)))
  IN IF rounded > 999 THEN 999 ELSE rounded

\* How parseTimeStringFast reads the string s by its structure, where a segment
\* counts as numeric when it is made of digits: of at least one digit, or
\* (emptyIsZero) of any number of digits, the empty segment being 0.
StructureRule(s, emptyIsZero) ==
  LET segments == Split(s, ":")
      numeric(segment) == AllDigits(segment) /\ (emptyIsZero \/ segment # <<>>)
      hourMinute == /\ numeric(segments[1]) /\ numeric(segments[2])
                    /\ DigitsValue(segments[1]) <= 99 /\ DigitsValue(segments[2]) <= 59
  IN /\ (Len(segments) = 2 /\ hourMinute)
          => readFast = TimeOfDay(DigitsValue(segments[1]), DigitsValue(segments[2]), 0, 0)
     /\ (Len(segments) = 3 /\ hourMinute /\ IsSeconds(segments[3])
           /\ WholeSeconds(segments[3]) <= 59)
          => readFast = TimeOfDay(DigitsValue(segments[1]), DigitsValue(segments[2]),
                                  WholeSeconds(segments[3]), Milliseconds(segments[3]))
     /\ (Len(segments) = 1 /\ Len(s) = 6 /\ AllDigits(s)
           /\ DigitsValue(SubSeq(s, 3, 4)) <= 59 /\ DigitsValue(SubSeq(s, 5, 6)) <= 59)
          => readFast = TimeOfDay(DigitsValue(SubSeq(s, 1, 2)), DigitsValue(SubSeq(s, 3, 4)),
                                  DigitsValue(SubSeq(s, 5, 6)), 0)
     /\ (Len(segments) = 1 /\ Len(s) = 4 /\ AllDigits(s) /\ DigitsValue(SubSeq(s, 3, 4)) <= 59)
          => readFast = TimeOfDay(DigitsValue(SubSeq(s, 1, 2)), DigitsValue(SubSeq(s, 3, 4)), 0, 0)
     /\ (Len(segments) > 3
           \/ (Len(segments) >= 2 /\ ~(numeric(segments[1]) /\ numeric(segments[2]))))
          => readFast = None

\* C24, as stated: the structural forms read a string with a colon as
\* hour:minute (second 0) when it has 2 segments and as
\* hour:minute:second[.fraction], the fraction rounded to milliseconds and
\* capped at 999, when it has 3; without a colon, 6 digits as HHMMSS and 4
\* digits as HHMM; and they accept no string of more than 3 segments or with an
\* hour or minute segment that is not a number.
C24_TimeReadByStructure ==
  (readDone /\ readAs = "time" /\ kindOf(readCell) = "text")
    => StructureRule(readCell[2], FALSE)

\* C24, amended: the same, an empty hour or minute segment being read as 0 and
\* only a segment that holds something other than digits being refused.
C24_TimeReadByStructure_EmptySegmentIsZero ==
  (readDone /\ readAs = "time" /\ kindOf(readCell) = "text")
    => StructureRule(readCell[2], TRUE)

\* "08:30:59.9996" is read as 08:30:59.999.
C24_Witness ==
  /\ readDone /\ readAs = "time"
  /\ readCell = TextCell(<<"0", "8", ":", "3", "0", ":", "5", "9", ".", "9", "9", "9", "6">>)
  /\ readFast = TimeOfDay(8, 30, 59, 999)

\* The year, month and day strings of a date string: its three segments when
\* it has a separator, the digits 1-4, 5-6 and 7-8 when it is 8 digits, and <<>>
\* when it is neither.
YearMonthDay(s) ==
  LET delimiter == IF Includes(s, "/") THEN "/" ELSE IF Includes(s, "-") THEN "-" ELSE "."
  IN IF Includes(s, delimiter)
     THEN (IF Len(Split(s, delimiter)) = 3 THEN Split(s, delimiter) ELSE <<>>)
     ELSE IF Len(s) = 8 /\ AllDigits(s)
     THEN <<SubSeq(s, 1, 4), SubSeq(s, 5, 6), SubSeq(s, 7, 8)>>
     ELSE <<>>

\* Day d of month m exists in year y.
RealDay(y, m, d) == m \in 1..12 /\ d >= 1 /\ d <= DaysInMonth(y, m)

\* The rule of C25 for the year, month and day strings of the cell.
CalendarRule(ymd) ==
  LET y == DigitsValue(ymd[1])
      m == DigitsValue(ymd[2])
      d == DigitsValue(ymd[3])
  IN /\ readResult # None
          => (RealDay(y, m, d) /\ readResult = Some([day |-> DaysFromCivil(y, m, d), ms |-> 0]))
     /\ ~RealDay(y, m, d) => readFast = None

\* C25: when the date interpreter accepts a year/month/day string (with /, - or
\* . between the parts, or 8 digits YYYYMMDD), the date returned has that year,
\* month and day; and a year, month and day that are no calendar day (a month
\* outside 1..12, a day outside 1..31 or past the end of the month) give no date
\* in the structural forms.
C25_DateIsThatCalendarDay ==
  (readDone /\ readAs = "date" /\ YearMonthDay(readCell[2]) # <<>>)
    => CalendarRule(YearMonthDay(readCell[2]))

\* A year, month and day that are a calendar day are read as that day, by the
\* structural forms already.
CalendarDayReadAsItself ==
  (readDone /\ readAs = "date" /\ YearMonthDay(readCell[2]) # <<>>)
    => LET ymd == YearMonthDay(readCell[2])
           y == DigitsValue(ymd[1])
           m == DigitsValue(ymd[2])
           d == DigitsValue(ymd[3])
       IN RealDay(y, m, d)
            => /\ readFast = Some([day |-> DaysFromCivil(y, m, d), ms |-> 0])
               /\ readResult = readFast

(***************************************************************************)
(* Properties of the loads of the page (SpecLoad, SpecReenter)             *)
(***************************************************************************)

InFlight == {k \in 1..Len(loads) : loads[k].pc = "awaiting"}

\* The page shows what the invocation alone leaves: for one that succeeded its
\* merged data, file names and loaded files and no error; for one that failed
\* its error, no data and no file name.
ShowsOnly(load) ==
  IF load.pc = "done"
  THEN page = loadSucceeded(InitialPage, load.datasets)
  ELSE /\ page.errorMessage = Some(load.error)
       /\ page.parsedData = Null
       /\ page.fileName = <<>>

\* C29: when handleFile is invoked again while an earlier invocation still
\* awaits its parse, then once all have finished the page shows (parsedData,
\* errorMessage, fileName, loadedFiles) the later-invoked load only; and
\* isLoading is true for as long as a load is in flight.
C29_LaterInvokedLoadWins ==
  /\ InFlight # {} => page.isLoading
  /\ (loads # <<>> /\ InFlight = {} /\ loads[Len(loads)].overlapping > 0)
       => ShowsOnly(loads[Len(loads)])

\* Through the file input, which takes no file while isLoading, no invocation
\* finds an earlier one awaiting; isLoading is true while a load is in flight
\* and the page shows the last load only once it has finished.
LoadsThroughInputDoNotOverlap ==
  /\ \A k \in 1..Len(loads) : loads[k].overlapping = 0
  /\ Cardinality(InFlight) <= 1
  /\ InFlight # {} <=> page.isLoading
  /\ (loads # <<>> /\ InFlight = {}) => ShowsOnly(loads[Len(loads)])

\* The last invocation has failed and no load is in flight.
LastLoadFailed ==
  loads # <<>> /\ InFlight = {} /\ loads[Len(loads)].pc = "failed"

\* C30: after an invocation of handleFile has failed, with no other load in
\* flight, nothing of an earlier successful load is left: parsedData is null,
\* fileName is empty, the visibility and axis maps of the series are empty and
\* loadedFiles is empty, while errorMessage is set and isLoading is false.
C30_FailedLoadLeavesNothing ==
  LastLoadFailed
    => /\ page.parsedData = Null
       /\ page.fileName = <<>>
       /\ page.seriesVisibility = <<>> /\ page.seriesAxis = <<>>
       /\ page.loadedFiles = <<>>
       /\ page.errorMessage # None
       /\ ~page.isLoading

\* After a failed load everything but loadedFiles is reset, and loadedFiles is
\* empty unless an earlier load succeeded.
FailedLoadResetsAllButLoadedFiles ==
  LastLoadFailed
    => /\ page.parsedData = Null
       /\ page.fileName = <<>>
       /\ page.seriesVisibility = <<>> /\ page.seriesAxis = <<>>
       /\ page.errorMessage = Some(loads[Len(loads)].error)
       /\ ~page.isLoading
       /\ page.loadedFiles # <<>> => \E k \in 1..Len(loads) : loads[k].pc = "done"

====
